---- MODULE Spec2Model ----
(***************************************************************************)
(* The agent event subscriber of src/src/agents/pi-embedded-subscribe.ts   *)
(* (subscribeEmbeddedPiSession) as a state machine.                        *)
(*                                                                         *)
(* Text is a sequence of one-character strings, so that the regular        *)
(* expressions of the source are matched character by character and a     *)
(* delta may cut a tag in two.  Indices returned by the operators that     *)
(* model indexOf/lastIndexOf/match.index are the 0-based indices of the    *)
(* source (the number of characters before the position), -1 for "none".   *)
(***************************************************************************)
EXTENDS Integers, Sequences, FiniteSets, TLC

(***************************************************************************)
(* Strings                                                                 *)
(***************************************************************************)

\* JavaScript's \s, restricted to the white space the streams use.
IsSpace(c) == c \in {" ", "\n", "\t"}

LowerTable ==
  [A |-> "a", B |-> "b", C |-> "c", D |-> "d", E |-> "e", F |-> "f", G |-> "g",
   H |-> "h", I |-> "i", J |-> "j", K |-> "k", L |-> "l", M |-> "m", N |-> "n",
   O |-> "o", P |-> "p", Q |-> "q", R |-> "r", S |-> "s", T |-> "t", U |-> "u",
   V |-> "v", W |-> "w", X |-> "x", Y |-> "y", Z |-> "z"]

\* The i flag of the tag expressions: letters compare in lower case.
Lower(c) == IF c \in DOMAIN LowerTable THEN LowerTable[c] ELSE c

\* text.slice(from) and text.slice(from, to), 0-based, to exclusive.
SliceFrom(s, from) == SubSeq(s, from + 1, Len(s))

Slice(s, from, to) == SubSeq(s, from + 1, to)

RECURSIVE TrimStart(_)
TrimStart(s) ==
  IF s = <<>> THEN <<>>
  ELSE IF IsSpace(Head(s)) THEN TrimStart(Tail(s)) ELSE s

RECURSIVE TrimEnd(_)
TrimEnd(s) ==
  IF s = <<>> THEN <<>>
  ELSE IF IsSpace(s[Len(s)]) THEN TrimEnd(SubSeq(s, 1, Len(s) - 1)) ELSE s

Trim(s) == TrimStart(TrimEnd(s))

\* Whether pat occurs in s at 0-based index i.
OccursAt(s, pat, i) ==
  /\ i >= 0
  /\ i + Len(pat) <= Len(s)
  /\ \A k \in 1..Len(pat) : s[i + k] = pat[k]

StartsWith(s, pat) == OccursAt(s, pat, 0)

Includes(s, pat) == \E i \in 0..Len(s) : OccursAt(s, pat, i)

SetMax(S) == CHOOSE x \in S : \A y \in S : y <= x

SetMin(S) == CHOOSE x \in S : \A y \in S : x <= y

\* s.lastIndexOf(pat)
LastIndexOf(s, pat) ==
  LET Last(hits) == IF hits = {} THEN -1 ELSE SetMax(hits)
  IN  Last({i \in 0..Len(s) : OccursAt(s, pat, i)})

(***************************************************************************)
(* The tag expressions.  Each is  <  \s*  [/]  \s*  word  [ing]  \s*  >    *)
(* with the i flag; slash is "none", "required" or "optional".             *)
(***************************************************************************)

ThinkWord == <<"t", "h", "i", "n", "k">>

IngSuffix == <<"i", "n", "g">>

FinalWord == <<"f", "i", "n", "a", "l">>

\* The first 0-based index >= i that holds no white space (Len(s) at the end).
RECURSIVE SkipSpace(_, _)
SkipSpace(s, i) ==
  IF i < Len(s) /\ IsSpace(s[i + 1]) THEN SkipSpace(s, i + 1) ELSE i

WordAt(s, i, w) ==
  /\ i + Len(w) <= Len(s)
  /\ \A k \in 1..Len(w) : Lower(s[i + k]) = w[k]

\* \s*> at index i: the index after the ">", or -1.
CloseAt(s, i) ==
  LET Bracket(k) == IF k < Len(s) /\ s[k + 1] = ">" THEN k + 1 ELSE -1
  IN  Bracket(SkipSpace(s, i))

\* The index after a match of the tag expression that starts at index i, or -1.
TagEnd(s, i, slash, word, ing) ==
  LET Short(after, long) == IF long # -1 THEN long ELSE CloseAt(s, after)
      Suffix(after) ==
        Short(after, IF ing /\ WordAt(s, after, IngSuffix)
                       THEN CloseAt(s, after + Len(IngSuffix)) ELSE -1)
      Word(w) == IF ~WordAt(s, w, word) THEN -1 ELSE Suffix(w + Len(word))
      Slash(j, isSl) ==
        IF slash = "required" /\ ~isSl THEN -1
        ELSE Word(IF isSl /\ slash # "none" THEN SkipSpace(s, j + 1) ELSE j)
      Open(j) == Slash(j, j < Len(s) /\ s[j + 1] = "/")
  IN  IF ~(i < Len(s) /\ s[i + 1] = "<") THEN -1
      ELSE Open(SkipSpace(s, i + 1))

\* match.index of the first match at or after index from, or -1.
FindTag(s, from, slash, word, ing) ==
  LET First(hits) == IF hits = {} THEN -1 ELSE SetMin(hits)
  IN  First({i \in from..(Len(s) - 1) : TagEnd(s, i, slash, word, ing) # -1})

\* THINKING_TAG_RE = /<\s*\/?\s*think(?:ing)?\s*>/gi
ThinkingTagAt(s, from) == FindTag(s, from, "optional", ThinkWord, TRUE)

ThinkingTagEnd(s, i) == TagEnd(s, i, "optional", ThinkWord, TRUE)

\* THINKING_OPEN_RE = /<\s*think(?:ing)?\s*>/i
ThinkingOpenAt(s) == FindTag(s, 0, "none", ThinkWord, TRUE)

\* THINKING_CLOSE_RE = /<\s*\/\s*think(?:ing)?\s*>/i
ThinkingCloseAt(s) == FindTag(s, 0, "required", ThinkWord, TRUE)

\* FINAL_START_RE = /<\s*final\s*>/i
FinalStartAt(s) == FindTag(s, 0, "none", FinalWord, FALSE)

\* FINAL_END_RE = /<\s*\/\s*final\s*>/i
FinalEndAt(s) == FindTag(s, 0, "required", FinalWord, FALSE)

\* text.replace(re, "") for a non-global expression: the first match is cut.
CutFirst(s, at, end) == IF at = -1 THEN s ELSE Slice(s, 0, at) \o SliceFrom(s, end)

\* The loop of stripThinkingSegments from index lastIndex on.
RECURSIVE StripFrom(_, _, _)
StripFrom(text, lastIndex, inThinking) ==
  LET Kept(to) == IF inThinking THEN <<>> ELSE Slice(text, lastIndex, to)
      Match(idx, end) ==
        Kept(idx) \o StripFrom(text, end, ~(\E k \in (idx + 1)..end : text[k] = "/"))
      At(idx) ==
        IF idx = -1 THEN Kept(Len(text)) ELSE Match(idx, ThinkingTagEnd(text, idx))
  IN  At(ThinkingTagAt(text, lastIndex))

stripThinkingSegments(text) ==
  IF text = <<>> \/ ThinkingTagAt(text, 0) = -1 THEN text
  ELSE StripFrom(text, 0, FALSE)

stripUnpairedThinkingTags(text) ==
  LET Strip(open, close) ==
        IF open # -1 /\ close # -1 THEN text
        ELSE IF open = -1
          THEN CutFirst(text, close, TagEnd(text, close, "required", ThinkWord, TRUE))
        ELSE CutFirst(text, open, TagEnd(text, open, "none", ThinkWord, TRUE))
  IN  IF text = <<>> THEN text
      ELSE Strip(ThinkingOpenAt(text), ThinkingCloseAt(text))

sanitizeFinalText(text) ==
  LET Sanitize(start, end) ==
        IF start # -1 /\ end = -1
          THEN CutFirst(text, start, TagEnd(text, start, "none", FinalWord, FALSE))
        ELSE IF start = -1 /\ end # -1
          THEN CutFirst(text, end, TagEnd(text, end, "required", FinalWord, FALSE))
        ELSE text
  IN  IF text = <<>> THEN text
      ELSE Sanitize(FinalStartAt(text), FinalEndAt(text))

\* The value the source calls undefined, where a text is expected.
Undefined == <<"undefined">>

extractFinalText(text) ==
  LET UpTo(afterStart, endMatch) ==
        Slice(afterStart, 0, IF endMatch # -1 THEN endMatch ELSE Len(afterStart))
      After(afterStart) == UpTo(afterStart, FinalEndAt(afterStart))
      Start(cleaned, startMatch) ==
        IF startMatch = -1 THEN Undefined
        ELSE After(SliceFrom(cleaned,
                             TagEnd(cleaned, startMatch, "none", FinalWord, FALSE)))
      Extract(cleaned) == Start(cleaned, FinalStartAt(cleaned))
  IN  Extract(sanitizeFinalText(text))

(***************************************************************************)
(* State                                                                   *)
(***************************************************************************)

VARIABLES
  params,                 \* the options subscribeEmbeddedPiSession was called with
  assistantTexts,
  toolMetas,
  toolMetaById,
  deltaBuffer,
  blockBuffer,
  lastStreamedAssistant,
  lastBlockReplyText,
  assistantTextBaseline,
  compactionInFlight,
  pendingCompactionRetry,
  compactionRetryPromise, \* TRUE while the shared promise (and its resolve) exists
  toolPending,            \* what the tool debouncer holds
  partialReplies,         \* texts passed to onPartialReply by the text handlers
  blockReplies,           \* payloads passed to onBlockReply
  suppressed,             \* whether emitBlockChunk dropped a chunk of the current
                          \* message because it equalled lastBlockReplyText
  toolPartials,           \* aggregates the tool debouncer passed to onPartialReply
  toolReplies,            \* aggregates passed to onToolResult
  toolEvent,              \* the data last given to emitAgentEvent on the tool stream
  waiters,                \* the callers of waitForCompactionRetry
  sessions,               \* the session table of the run coordinator
  runQueue,               \* the submissions that wait for capacity, first in first
  coordinator,            \* the coordinator's configuration and its ledger of inputs
  heartbeat,              \* the heartbeat scheduler: control channel, last events
  gate,                   \* the gate: its configuration, the event, its decision
  hooks,                  \* the webhook ingestor: the request and its answer
  xpc,                    \* the XPC listener of the menu bar app and its client
  setup,                  \* setup.sh: its arguments, its position, the host it changes
  env                     \* the agent that emits the events

progVars ==
  <<assistantTexts, toolMetas, toolMetaById, deltaBuffer, blockBuffer,
    lastStreamedAssistant, lastBlockReplyText, assistantTextBaseline,
    compactionInFlight, pendingCompactionRetry, compactionRetryPromise,
    toolPending>>

textVars ==
  <<assistantTexts, deltaBuffer, blockBuffer, lastStreamedAssistant,
    lastBlockReplyText, assistantTextBaseline, partialReplies, blockReplies,
    suppressed>>

toolVars ==
  <<toolMetas, toolMetaById, toolPending, toolPartials, toolReplies, toolEvent>>

coordVars == <<sessions, runQueue, coordinator>>

hostVars == <<heartbeat, gate, hooks, xpc, setup>>

compactionVars ==
  <<compactionInFlight, pendingCompactionRetry, compactionRetryPromise, waiters>>

vars ==
  <<params, assistantTexts, toolMetas, toolMetaById, deltaBuffer, blockBuffer,
    lastStreamedAssistant, lastBlockReplyText, assistantTextBaseline,
    compactionInFlight, pendingCompactionRetry, compactionRetryPromise,
    toolPending, partialReplies, blockReplies, suppressed, toolPartials,
    toolReplies, toolEvent, waiters,
    sessions, runQueue, coordinator, heartbeat, gate, hooks, xpc, setup, env>>

(***************************************************************************)
(* Bounds of the model                                                     *)
(***************************************************************************)

\* Assistant text events (message_update, message_end) in one behaviour.
MaxTextEvents == 4

\* Tool events in one behaviour.
MaxToolEvents == 2

\* auto_compaction_start events in one behaviour.
MaxCompactions == 2

\* agent_start and agent_end events (each) in one behaviour.
MaxAgentRuns == 3

\* Callers of waitForCompactionRetry.
MaxWaiters == 2

\* Events and calls of all kinds in one behaviour of Spec.
MaxEvents == 5

Max(a, b) == IF a >= b THEN a ELSE b

Min(a, b) == IF a <= b THEN a ELSE b

(***************************************************************************)
(* Media extraction: a media pseudo-URL is written as the one character    *)
(* MediaMark.                                                              *)
(***************************************************************************)

MediaMark == "@"

\* splitMediaFromOutput(text): the text without its media pseudo-URLs, and them.
splitMediaFromOutput(text) ==
  [text      |-> SelectSeq(text, LAMBDA c : c # MediaMark),
   mediaUrls |-> Len(SelectSeq(text, LAMBDA c : c = MediaMark))]

(***************************************************************************)
(* Chunking                                                                *)
(***************************************************************************)

blockChunking == params.blockReplyChunking

ChunkMin == Max(1, blockChunking.minChars)

ChunkMax == Max(ChunkMin, blockChunking.maxChars)

IsSentenceEnd(window, at) ==
  /\ window[at + 1] \in {".", "!", "?"}
  /\ (at + 1 = Len(window) \/ IsSpace(window[at + 2]))

findSentenceBreak(window, minChars) ==
  LET Last(hits) == IF hits = {} THEN -1 ELSE SetMax(hits) + 1
  IN  Last({at \in 0..(Len(window) - 1) :
              IsSentenceEnd(window, at) /\ at >= minChars})

\* findWhitespaceBreak were it to scan from minChars upwards.
findWhitespaceBreakFirst(window, minChars) ==
  LET First(hits) == IF hits = {} THEN -1 ELSE SetMin(hits)
  IN  First({i \in minChars..(Len(window) - 1) : IsSpace(window[i + 1])})

findWhitespaceBreak(window, minChars) ==
  LET Last(hits) == IF hits = {} THEN -1 ELSE SetMax(hits)
  IN  Last({i \in minChars..(Len(window) - 1) : IsSpace(window[i + 1])})

\* pickBreakIndex were the order of the rules the same for every preference.
pickBreakIndexParagraphFirst(buffer) ==
  LET minChars == ChunkMin
      maxChars == ChunkMax
      Whitespace(whitespaceIdx) ==
        IF whitespaceIdx >= minChars THEN whitespaceIdx
        ELSE IF Len(buffer) >= maxChars THEN maxChars
        ELSE -1
      Sentence(window, sentenceIdx) ==
        IF sentenceIdx >= minChars THEN sentenceIdx
        ELSE Whitespace(findWhitespaceBreak(window, minChars))
      Newline(window, newlineIdx) ==
        IF newlineIdx >= minChars THEN newlineIdx
        ELSE Sentence(window, findSentenceBreak(window, minChars))
      Paragraph(window, paragraphIdx) ==
        IF paragraphIdx >= minChars THEN paragraphIdx
        ELSE Newline(window, LastIndexOf(window, <<"\n">>))
      Pick(window) == Paragraph(window, LastIndexOf(window, <<"\n", "\n">>))
  IN  IF ~blockChunking.set THEN -1
      ELSE IF Len(buffer) < minChars THEN -1
      ELSE Pick(Slice(buffer, 0, Min(maxChars, Len(buffer))))

pickBreakIndex(buffer) ==
  LET minChars   == ChunkMin
      maxChars   == ChunkMax
      preference == blockChunking.breakPreference
      Whitespace(whitespaceIdx) ==
        IF whitespaceIdx >= minChars THEN whitespaceIdx
        ELSE IF Len(buffer) >= maxChars THEN maxChars
        ELSE -1
      Sentence(window, sentenceIdx) ==
        IF preference # "newline" /\ sentenceIdx >= minChars THEN sentenceIdx
        ELSE Whitespace(findWhitespaceBreak(window, minChars))
      Newline(window, newlineIdx) ==
        IF preference \in {"paragraph", "newline"} /\ newlineIdx >= minChars
          THEN newlineIdx
        ELSE Sentence(window, findSentenceBreak(window, minChars))
      Paragraph(window, paragraphIdx) ==
        IF preference = "paragraph" /\ paragraphIdx >= minChars THEN paragraphIdx
        ELSE Newline(window, LastIndexOf(window, <<"\n">>))
      Pick(window) == Paragraph(window, LastIndexOf(window, <<"\n", "\n">>))
  IN  IF ~blockChunking.set THEN -1
      ELSE IF Len(buffer) < minChars THEN -1
      ELSE Pick(Slice(buffer, 0, Min(maxChars, Len(buffer))))

\* The part of the state the block path changes.
BlockState ==
  [blockBuffer        |-> blockBuffer,
   lastBlockReplyText |-> lastBlockReplyText,
   assistantTexts     |-> assistantTexts,
   blockReplies       |-> blockReplies,
   suppressed         |-> env.phase = "message" /\ suppressed]

\* void params.onBlockReply({text, mediaUrls}) behind its guards.
DeliverBlock(st, text) ==
  LET Call(out) ==
        IF params.onBlockReply /\ (out.text # <<>> \/ out.mediaUrls > 0)
          THEN [st EXCEPT !.blockReplies = Append(@, out)]
          ELSE st
  IN  Call(splitMediaFromOutput(text))

\* emitBlockChunk without its comparison with lastBlockReplyText.
emitBlockChunkNoDedupe(st, text) ==
  LET Emit(chunk) ==
        IF chunk = <<>> THEN st
        ELSE DeliverBlock(
               [st EXCEPT !.lastBlockReplyText = chunk,
                          !.assistantTexts = Append(@, chunk)],
               chunk)
  IN  Emit(TrimEnd(text))

emitBlockChunk(st, text) ==
  LET Emit(chunk) ==
        IF chunk = <<>> THEN st
        ELSE IF chunk = st.lastBlockReplyText THEN [st EXCEPT !.suppressed = TRUE]
        ELSE DeliverBlock(
               [st EXCEPT !.lastBlockReplyText = chunk,
                          !.assistantTexts = Append(@, chunk)],
               chunk)
  IN  Emit(TrimEnd(text))

\* The condition of the while loop of drainBlockBuffer (line 268).
DrainCondition(st, force) ==
  Len(st.blockBuffer) >= ChunkMin \/ (force /\ Len(st.blockBuffer) > 0)

\* A slip: the chunk that was emitted stays in the buffer.
DrainIterationWithoutAdvance(st, force) ==
  LET buf == st.blockBuffer
      Go(next, returned) == [st |-> next, returned |-> returned]
      Break(breakIdx) ==
        IF breakIdx <= 0
          THEN Go(IF force
                    THEN [emitBlockChunk(st, buf) EXCEPT !.blockBuffer = <<>>]
                    ELSE st,
                  TRUE)
        ELSE Go([emitBlockChunk(st, Slice(buf, 0, breakIdx))
                   EXCEPT !.blockBuffer = TrimStart(buf)],
                FALSE)
  IN  Break(pickBreakIndex(buf))

\* One iteration of the while loop of drainBlockBuffer (lines 269-289): the
\* state it leaves and whether it returned.
DrainIteration(st, force) ==
  LET buf == st.blockBuffer
      Go(next, returned) == [st |-> next, returned |-> returned]
      Again(emitted) ==
        Go(emitted,
           \/ Len(emitted.blockBuffer) < ChunkMin /\ ~force
           \/ Len(emitted.blockBuffer) < ChunkMax /\ ~force)
      Cut(breakIdx, rawChunk, nextStart) ==
        IF Len(Trim(rawChunk)) = 0
          THEN Go([st EXCEPT !.blockBuffer = TrimStart(SliceFrom(buf, breakIdx))],
                  FALSE)
        ELSE Again([emitBlockChunk(st, rawChunk)
                      EXCEPT !.blockBuffer = TrimStart(SliceFrom(buf, nextStart))])
      Break(breakIdx) ==
        IF breakIdx <= 0
          THEN Go(IF force
                    THEN [emitBlockChunk(st, buf) EXCEPT !.blockBuffer = <<>>]
                    ELSE st,
                  TRUE)
        ELSE Cut(breakIdx,
                 Slice(buf, 0, breakIdx),
                 IF breakIdx < Len(buf) /\ IsSpace(buf[breakIdx + 1])
                   THEN breakIdx + 1 ELSE breakIdx)
  IN  Break(pickBreakIndex(buf))

\* The while loop of drainBlockBuffer.
RECURSIVE DrainLoop(_, _)
DrainLoop(st, force) ==
  LET Continue(r) == IF r.returned THEN r.st ELSE DrainLoop(r.st, force)
  IN  IF ~DrainCondition(st, force) THEN st
      ELSE Continue(DrainIteration(st, force))

drainBlockBuffer(st, force) ==
  LET buf == st.blockBuffer
  IN  IF ~blockChunking.set THEN st
      ELSE IF force /\ Len(buf) > 0 /\ Len(buf) <= ChunkMax
        THEN [emitBlockChunk(st, buf) EXCEPT !.blockBuffer = <<>>]
      ELSE IF Len(buf) < ChunkMin /\ ~force THEN st
      ELSE DrainLoop(st, force)

(***************************************************************************)
(* The agent: the events it emits and the message it is streaming.         *)
(*   alphabet      the deltas it may stream                                *)
(*   closedBlocks  the text blocks of the current message closed by a      *)
(*                 text_end, openBlock the one being streamed              *)
(*   phase         "idle" before the first message, "message" while one is *)
(*                 streamed, "ended" after its message_end                 *)
(*   blockBase, partialBase, textBase   Len(blockReplies),                 *)
(*                 Len(partialReplies), Len(assistantTexts) when the       *)
(*                 current message began                                   *)
(*   lastEvent     the event handled last                                  *)
(*   nText, nTool, ...  the events emitted so far, by kind; budget bounds  *)
(*                 their total                                             *)
(*   textSinceRetry  the text events since the last compaction retry       *)
(*   discarded     what the last compaction retry found accumulated        *)
(*   releasedBy    the event that last resolved the shared promise for a   *)
(*                 waiter                                                  *)
(*   atEnd         the block buffer, the dedupe marker, the number of      *)
(*                 blocks delivered and the number of assistantTexts that  *)
(*                 the last message_end found                              *)
(*   toolResults   the results and partial results its tools may give,     *)
(*                 toolGiven the one given last                            *)
(*   maxTool       how many tool events it emits at most                   *)
(*   started       the meta of each tool call it has started, ends the     *)
(*                 tool name and that meta of each call it has ended, both *)
(*                 since the last compaction retry                         *)
(*   emitAnswer    what shouldEmitToolResult() returned last               *)
(*   stray         whether a compaction ended that had not started, or     *)
(*                 started while one was in flight                         *)
(*   drain         where a call of drainBlockBuffer followed step by step  *)
(*                 is (at), its argument (force) and whether its loop has  *)
(*                 run once or more often (iterations, at most 2)          *)
(***************************************************************************)

\* extractAssistantText(msg): the text blocks of the message, each trimmed, the
\* empty ones dropped, joined by a newline and trimmed.
RECURSIVE JoinBlocks(_)
JoinBlocks(blocks) ==
  IF blocks = <<>> THEN <<>>
  ELSE LET first == Trim(Head(blocks))
           rest  == JoinBlocks(Tail(blocks))
       IN  IF first = <<>> THEN rest
           ELSE IF rest = <<>> THEN first
           ELSE first \o <<"\n">> \o rest

extractAssistantText(blocks) == Trim(JoinBlocks(blocks))

\* The text blocks of the message the agent is streaming.
MessageBlocks ==
  IF env.phase = "message" THEN Append(env.closedBlocks, env.openBlock) ELSE <<>>

\* The events emitted and the calls made so far.
EventCount ==
  env.nText + env.nTool + env.nCompaction + env.nCompactionEnd + env.nAgent
  + env.nAgentEnd + Cardinality({w \in DOMAIN waiters : waiters[w] # "none"})

CanEmit == EventCount < env.budget

\* The agent's record once it has begun a message.
InMessage ==
  IF env.phase = "message" THEN env
  ELSE [env EXCEPT !.phase = "message", !.closedBlocks = <<>>, !.openBlock = <<>>,
                   !.blockBase = Len(blockReplies),
                   !.partialBase = Len(partialReplies),
                   !.textBase = Len(assistantTexts)]

(***************************************************************************)
(* message_update                                                          *)
(***************************************************************************)

\* The text the event adds to the buffers (lines 453-468).
UpdateChunk(evtType, delta, content) ==
  IF evtType = "text_delta" THEN delta
  ELSE IF delta # <<>> THEN delta
  ELSE IF content # <<>>
    THEN IF StartsWith(content, deltaBuffer)
           THEN SliceFrom(content, Len(deltaBuffer))
         ELSE IF StartsWith(deltaBuffer, content) THEN <<>>
         ELSE IF ~Includes(deltaBuffer, content) THEN content
         ELSE <<>>
  ELSE <<>>

\* cleaned and next of the message_update handler, for the delta buffer buf.
CleanedOf(buf) ==
  IF params.enforceFinalTag
    THEN stripThinkingSegments(stripUnpairedThinkingTags(buf))
    ELSE stripThinkingSegments(buf)

NextOf(buf) ==
  LET Final(cleaned, final) ==
        IF final # Undefined THEN Trim(final) ELSE Trim(cleaned)
      Pick(cleaned) ==
        IF params.enforceFinalTag THEN Final(cleaned, extractFinalText(cleaned))
        ELSE Trim(cleaned)
  IN  Pick(CleanedOf(buf))

\* The block path of a text_end under blockReplyBreak = "text_end" (lines 512-527).
TextEndFlush(st, next) ==
  IF blockChunking.set /\ Len(st.blockBuffer) > 0 THEN drainBlockBuffer(st, TRUE)
  ELSE IF next # <<>> /\ next # st.lastBlockReplyText
    THEN DeliverBlock(
           [st EXCEPT !.lastBlockReplyText = next,
                      !.assistantTexts = Append(@, next)],
           next)
  ELSE st

HandleMessageUpdate(evtType, delta, content) ==
  LET closing == evtType = "text_end" /\ params.blockReplyBreak = "text_end"
      Assign(buf, next, publish, st) ==
        /\ partialReplies' =
             IF publish /\ params.onPartialReply
               THEN Append(partialReplies, splitMediaFromOutput(next))
               ELSE partialReplies
        /\ deltaBuffer' = IF closing THEN <<>> ELSE buf
        /\ blockBuffer' = IF closing THEN <<>> ELSE st.blockBuffer
        /\ lastStreamedAssistant' =
             IF closing THEN Undefined
             ELSE IF publish THEN next ELSE lastStreamedAssistant
        /\ lastBlockReplyText' = st.lastBlockReplyText
        /\ assistantTexts' = st.assistantTexts
        /\ blockReplies' = st.blockReplies
        /\ suppressed' = st.suppressed
        /\ UNCHANGED assistantTextBaseline
      Flush(buf, next, st) ==
        Assign(buf, next, next # <<>> /\ next # lastStreamedAssistant,
               IF closing THEN TextEndFlush(st, next) ELSE st)
      Drain(buf, st) ==
        Flush(buf, NextOf(buf),
              IF params.onBlockReply /\ blockChunking.set
                THEN drainBlockBuffer(st, FALSE) ELSE st)
      Add(chunk) ==
        Drain(deltaBuffer \o chunk, [BlockState EXCEPT !.blockBuffer = @ \o chunk])
  IN  Add(UpdateChunk(evtType, delta, content))

MessageUpdate ==
  /\ CanEmit /\ env.nText < MaxTextEvents
  /\ \E evtType \in {"text_start", "text_delta", "text_end"} :
     \E delta \in env.alphabet \cup {<<>>} :
     \E withContent \in BOOLEAN :
       LET e       == InMessage
           block   == e.openBlock \o delta
           content == IF withContent THEN block ELSE <<>>
       IN  /\ (evtType = "text_delta") = (delta # <<>>)
           /\ withContent => evtType = "text_end"
           /\ HandleMessageUpdate(evtType, delta, content)
           /\ env' = [e EXCEPT
                        !.nText = @ + 1,
                        !.textSinceRetry = @ + 1,
                        !.lastEvent = evtType,
                        !.openBlock = IF evtType = "text_end" THEN <<>> ELSE block,
                        !.closedBlocks = IF evtType = "text_end"
                                           THEN Append(@, block) ELSE @]
  /\ UNCHANGED <<params, hostVars, coordVars, toolVars, compactionVars>>

(***************************************************************************)
(* message_end                                                             *)
(***************************************************************************)

\* text of the message_end handler, for the text of the message.
FinalTextOf(raw) ==
  LET Final(cleaned, final) == IF final # Undefined THEN Trim(final) ELSE cleaned
      Text(cleaned) ==
        IF params.enforceFinalTag /\ cleaned # <<>>
          THEN Final(cleaned, extractFinalText(cleaned))
          ELSE cleaned
  IN  Text(CleanedOf(raw))

\* The block path of message_end were it taken under blockReplyBreak =
\* "message_end" only.
MessageEndFlushOnBreakOnly(st, text) ==
  IF ~(params.blockReplyBreak = "message_end" /\ text # <<>> /\ params.onBlockReply)
    THEN st
  ELSE IF blockChunking.set /\ Len(st.blockBuffer) > 0 THEN drainBlockBuffer(st, TRUE)
  ELSE IF text # st.lastBlockReplyText
    THEN DeliverBlock([st EXCEPT !.lastBlockReplyText = text], text)
  ELSE st

\* The block path of message_end (lines 558-576).
MessageEndFlush(st, text) ==
  IF ~((params.blockReplyBreak = "message_end" \/ Len(st.blockBuffer) > 0)
        /\ text # <<>> /\ params.onBlockReply)
    THEN st
  ELSE IF blockChunking.set /\ Len(st.blockBuffer) > 0 THEN drainBlockBuffer(st, TRUE)
  ELSE IF text # st.lastBlockReplyText
    THEN DeliverBlock([st EXCEPT !.lastBlockReplyText = text], text)
  ELSE st

\* A slip: message_end leaves the two dedupe markers as they are.
HandleMessageEndKeepingMarkers(raw) ==
  LET Assign(texts, st) ==
        /\ assistantTextBaseline' = Len(texts)
        /\ assistantTexts' = st.assistantTexts
        /\ blockReplies' = st.blockReplies
        /\ suppressed' = st.suppressed
        /\ deltaBuffer' = <<>>
        /\ blockBuffer' = <<>>
        /\ lastStreamedAssistant' = lastStreamedAssistant
        /\ lastBlockReplyText' = st.lastBlockReplyText
        /\ UNCHANGED partialReplies
      Flush(text, texts) ==
        Assign(texts,
               MessageEndFlush([BlockState EXCEPT !.assistantTexts = texts], text))
      Push(text) ==
        Flush(text,
              IF ~(Len(assistantTexts) > assistantTextBaseline) /\ text # <<>>
                THEN Append(assistantTexts, text)
                ELSE assistantTexts)
  IN  Push(FinalTextOf(raw))

HandleMessageEnd(raw) ==
  LET Assign(texts, st) ==
        /\ assistantTextBaseline' = Len(texts)
        /\ assistantTexts' = st.assistantTexts
        /\ blockReplies' = st.blockReplies
        /\ suppressed' = st.suppressed
        /\ deltaBuffer' = <<>>
        /\ blockBuffer' = <<>>
        /\ lastStreamedAssistant' = Undefined
        /\ lastBlockReplyText' = Undefined
        /\ UNCHANGED partialReplies
      Flush(text, texts) ==
        Assign(texts,
               MessageEndFlush([BlockState EXCEPT !.assistantTexts = texts], text))
      Push(text) ==
        Flush(text,
              IF ~(Len(assistantTexts) > assistantTextBaseline) /\ text # <<>>
                THEN Append(assistantTexts, text)
                ELSE assistantTexts)
  IN  Push(FinalTextOf(raw))

MessageEnd ==
  /\ CanEmit /\ env.nText < MaxTextEvents
  /\ HandleMessageEnd(extractAssistantText(MessageBlocks))
  /\ env' = [InMessage EXCEPT !.nText = @ + 1, !.textSinceRetry = @ + 1,
                              !.lastEvent = "message_end", !.phase = "ended",
                              !.atEnd = [buffer |-> blockBuffer,
                                         marker |-> lastBlockReplyText,
                                         blocks |-> Len(blockReplies),
                                         texts  |-> Len(assistantTexts)]]
  /\ UNCHANGED <<params, hostVars, coordVars, toolVars, compactionVars>>

\* The message_end of an assistant message that was not streamed: no
\* message_update came before it.
MessageEndUnstreamed ==
  /\ CanEmit /\ env.nText < MaxTextEvents
  /\ env.phase # "message"
  /\ \E text \in env.alphabet :
       /\ HandleMessageEnd(extractAssistantText(<<text>>))
       /\ env' = [InMessage EXCEPT !.nText = @ + 1, !.textSinceRetry = @ + 1,
                                   !.lastEvent = "message_end", !.phase = "ended",
                                   !.closedBlocks = <<text>>,
                                   !.atEnd = [buffer |-> blockBuffer,
                                              marker |-> lastBlockReplyText,
                                              blocks |-> Len(blockReplies),
                                              texts  |-> Len(assistantTexts)]]
  /\ UNCHANGED <<params, hostVars, coordVars, toolVars, compactionVars>>

(***************************************************************************)
(* Tool events                                                             *)
(***************************************************************************)

(***************************************************************************)
(* Messages and message events that carry no assistant text                *)
(***************************************************************************)

Roles == {"assistant", "user", "toolResult"}

\* The types of an assistantMessageEvent; "" stands for a missing one.
InnerTypes ==
  {"text_start", "text_delta", "text_end", "thinking_delta", "toolcall_delta", ""}

\* A slip: the role of the message is not looked at.
IsTextUpdateOfAnyRole(role, evtType) ==
  evtType \in {"text_delta", "text_start", "text_end"}

\* The guards of the message_update handler (lines 428 and 440-444).
IsAssistantTextUpdate(role, evtType) ==
  role = "assistant" /\ evtType \in {"text_delta", "text_start", "text_end"}

\* The message_update handler (lines 426-534).
OnMessageUpdate(role, evtType, delta, content) ==
  IF IsAssistantTextUpdate(role, evtType)
    THEN HandleMessageUpdate(evtType, delta, content)
    ELSE UNCHANGED textVars

\* The message_end handler (lines 536-582).
OnMessageEnd(role, raw) ==
  IF role = "assistant" THEN HandleMessageEnd(raw) ELSE UNCHANGED textVars

\* A message_update that is not one of assistant text: of another role, or of
\* the assistant with another inner type.
MessageUpdateOther ==
  /\ CanEmit /\ env.nText < MaxTextEvents
  /\ \E role \in Roles, evtType \in InnerTypes, delta \in env.alphabet :
       /\ role # "assistant" \/ evtType \notin {"text_delta", "text_start", "text_end"}
       /\ OnMessageUpdate(role, evtType, delta, <<>>)
  /\ env' = [env EXCEPT !.nText = @ + 1, !.lastEvent = "message_update_other"]
  /\ UNCHANGED <<params, hostVars, coordVars, toolVars, compactionVars>>

\* The message_end of a message of another role.
MessageEndOther ==
  /\ CanEmit /\ env.nText < MaxTextEvents
  /\ \E role \in Roles \ {"assistant"}, text \in env.alphabet :
       OnMessageEnd(role, extractAssistantText(<<text>>))
  /\ env' = [env EXCEPT !.nText = @ + 1, !.lastEvent = "message_end_other"]
  /\ UNCHANGED <<params, hostVars, coordVars, toolVars, compactionVars>>

ToolNames == {"bash", "read"}

ToolCallIds == {"call1", "call2"}

\* What inferToolMetaFromArgs may return; NoMeta is the source's undefined.
NoMeta == "undefined"

ToolMetaValues == {"m1", NoMeta}

NoTool == "none"

IdlePending == [toolName |-> NoTool, metas |-> <<>>]

\* toolDebouncer.flush(): the pending aggregate goes to onPartialReply.
DebouncerFlush(pending, partials) ==
  [pending  |-> IdlePending,
   partials |-> IF pending.toolName # NoTool /\ params.onPartialReply
                  THEN Append(partials, pending) ELSE partials]

\* toolDebouncer.push(toolName, meta): another tool flushes what is pending.
DebouncerPush(pending, partials, toolName, meta) ==
  LET d == IF pending.toolName \notin {NoTool, toolName}
             THEN DebouncerFlush(pending, partials)
             ELSE [pending |-> pending, partials |-> partials]
  IN  [pending  |-> [toolName |-> toolName,
                     metas    |-> IF meta # NoMeta
                                    THEN Append(d.pending.metas, meta)
                                    ELSE d.pending.metas],
       partials |-> d.partials]

\* A tool result is an object with a content array, an object without one, or
\* no object at all (undefined, a string); a content item has a type and, by
\* its type, a text or a data string.  Undefined and NoBytes stand for a field
\* that is absent.
NoBytes == 0 - 1

TextItem(text) ==
  [type |-> "text", text |-> text, data |-> Undefined, bytes |-> NoBytes,
   omitted |-> FALSE]

ImageItem(data) ==
  [type |-> "image", text |-> Undefined, data |-> data, bytes |-> NoBytes,
   omitted |-> FALSE]

ContentResult(content) == [object |-> TRUE, array |-> TRUE, content |-> content]

BareResult == [object |-> TRUE, array |-> FALSE, content |-> <<>>]

UndefinedResult == [object |-> FALSE, array |-> FALSE, content |-> <<>>]

TOOL_RESULT_MAX_CHARS == 8000

\* "\n…(truncated)…": fourteen characters, the ellipsis being one.
TruncatedSuffix ==
  <<"\n", "...", "(", "t", "r", "u", "n", "c", "a", "t", "e", "d", ")", "...">>

truncateToolText(text) ==
  IF Len(text) <= TOOL_RESULT_MAX_CHARS THEN text
  ELSE Slice(text, 0, TOOL_RESULT_MAX_CHARS) \o TruncatedSuffix

\* The callback of content.map in sanitizeToolResult.
SanitizeItem(entry) ==
  IF entry.type = "text" /\ entry.text # Undefined
    THEN [entry EXCEPT !.text = truncateToolText(entry.text)]
  ELSE IF entry.type = "image"
    THEN [entry EXCEPT !.data = Undefined,
                       !.bytes = IF entry.data # Undefined /\ entry.data # <<>>
                                   THEN Len(entry.data) ELSE NoBytes,
                       !.omitted = TRUE]
  ELSE entry

\* A mutant of sanitizeToolResult: it sanitises the text items only.
sanitizeToolResultTextOnly(result) ==
  IF ~result.object \/ ~result.array THEN result
  ELSE [result EXCEPT !.content =
          [i \in DOMAIN result.content |->
             IF result.content[i].type = "text"
               THEN SanitizeItem(result.content[i]) ELSE result.content[i]]]

sanitizeToolResult(result) ==
  IF ~result.object \/ ~result.array THEN result
  ELSE [result EXCEPT !.content =
          [i \in DOMAIN result.content |-> SanitizeItem(result.content[i])]]

NoToolEvent == [phase |-> "none", result |-> UndefinedResult]

\* What the agent knows of a tool call that no start announced.
NoStart == "undefined"

\* The meta the agent's own record holds for a tool call.
StartedMeta(toolCallId) ==
  IF toolCallId \in DOMAIN env.started THEN env.started[toolCallId] ELSE NoStart

ToolExecutionStart ==
  /\ CanEmit /\ env.nTool < env.maxTool
  /\ \E toolName \in ToolNames, toolCallId \in ToolCallIds, meta \in ToolMetaValues :
       /\ toolMetaById' = [id \in DOMAIN toolMetaById \cup {toolCallId} |->
                             IF id = toolCallId THEN meta ELSE toolMetaById[id]]
       /\ env' = [env EXCEPT
                    !.nTool = @ + 1, !.lastEvent = "tool_execution_start",
                    !.started = [id \in DOMAIN @ \cup {toolCallId} |->
                                   IF id = toolCallId THEN meta ELSE @[id]]]
  /\ toolEvent' = [phase |-> "start", result |-> UndefinedResult]
  /\ UNCHANGED <<params, hostVars, coordVars, textVars, compactionVars, toolMetas,
                 toolPending, toolPartials, toolReplies>>

ToolExecutionUpdate ==
  /\ CanEmit /\ env.nTool < env.maxTool
  /\ \E partialResult \in env.toolResults :
       /\ toolEvent' = [phase |-> "update", result |-> sanitizeToolResult(partialResult)]
       /\ env' = [env EXCEPT !.nTool = @ + 1, !.lastEvent = "tool_execution_update",
                             !.toolGiven = partialResult]
  /\ UNCHANGED <<params, hostVars, coordVars, textVars, compactionVars, toolMetas,
                 toolMetaById, toolPending, toolPartials, toolReplies>>

\* formatToolAggregate(toolName, meta ? [meta] : undefined): the aggregate of one
\* tool call; its text names the tool, so it is never empty.
ToolAggregate(toolName, meta) ==
  [toolName |-> toolName, metas |-> IF meta # NoMeta THEN <<meta>> ELSE <<>>]

\* A slip: the meta of some call that has started is taken, whatever its
\* toolCallId.
MetaOfAnyStart(byId, toolCallId) ==
  IF DOMAIN byId = {} THEN NoMeta ELSE byId[CHOOSE id \in DOMAIN byId : TRUE]

\* toolMetaById.get(toolCallId) (line 379).
MetaOf(byId, toolCallId) ==
  IF toolCallId \in DOMAIN byId THEN byId[toolCallId] ELSE NoMeta

\* A slip: verboseLevel 'on' emits whatever shouldEmitToolResult says.
emitToolResultVerboseFirst(answer) ==
  params.verboseLevel = "on" \/ (params.shouldEmitToolResult /\ answer)

\* emitToolResult (lines 406-409), answer being what shouldEmitToolResult()
\* returns when it is called.
emitToolResult(answer) ==
  IF params.shouldEmitToolResult THEN answer ELSE params.verboseLevel = "on"

ToolExecutionEnd ==
  /\ CanEmit /\ env.nTool < env.maxTool
  /\ \E toolName \in ToolNames, toolCallId \in ToolCallIds, result \in env.toolResults :
     \E answer \in (IF params.shouldEmitToolResult THEN BOOLEAN ELSE {FALSE}) :
       LET meta == MetaOf(toolMetaById, toolCallId)
           d    == DebouncerPush(toolPending, toolPartials, toolName, meta)
       IN  /\ toolMetas' = Append(toolMetas, [toolName |-> toolName, meta |-> meta])
           /\ toolPending' = d.pending
           /\ toolPartials' = d.partials
           /\ toolEvent' = [phase |-> "result", result |-> sanitizeToolResult(result)]
           /\ toolReplies' =
                IF emitToolResult(answer) /\ params.onToolResult
                  THEN Append(toolReplies, ToolAggregate(toolName, meta))
                  ELSE toolReplies
           /\ env' = [env EXCEPT
                        !.nTool = @ + 1, !.lastEvent = "tool_execution_end",
                        !.toolGiven = result,
                        !.emitAnswer = answer,
                        !.ends = Append(@, [toolName |-> toolName,
                                            meta |-> StartedMeta(toolCallId)])]
  /\ UNCHANGED <<params, hostVars, coordVars, textVars, compactionVars, toolMetaById>>

\* The debouncer's timer fires.
DebounceTimer ==
  /\ toolPending.toolName # NoTool
  /\ LET d == DebouncerFlush(toolPending, toolPartials)
     IN  toolPending' = d.pending /\ toolPartials' = d.partials
  /\ UNCHANGED <<params, hostVars, coordVars, textVars, compactionVars, toolMetas,
                 toolMetaById, toolReplies, toolEvent, env>>

(***************************************************************************)
(* Compaction and its waiters.  A waiter is "none" (has not called),       *)
(* "queued" (its microtask is queued), "awaiting" (holds the shared        *)
(* promise), "released" (the shared promise was resolved) or "passed"      *)
(* (resolved by its own microtask).                                        *)
(***************************************************************************)

Waiters == 1..MaxWaiters

\* compactionRetryResolve?.(): everyone who holds the shared promise goes on.
ResolveShared(ws) == [w \in Waiters |-> IF ws[w] = "awaiting" THEN "released" ELSE ws[w]]

\* ensureCompactionPromise, noteCompactionRetry, resolveCompactionRetry and
\* maybeResolveCompactionWait, on the record of the compaction variables.
CompactionState ==
  [inFlight |-> compactionInFlight, pending |-> pendingCompactionRetry,
   promise  |-> compactionRetryPromise, waiters |-> waiters]

ensureCompactionPromise(c) == [c EXCEPT !.promise = TRUE]

noteCompactionRetry(c) == ensureCompactionPromise([c EXCEPT !.pending = @ + 1])

\* A slip: the count goes down and nobody is told.
resolveWithoutRelease(c) ==
  IF c.pending <= 0 THEN c ELSE [c EXCEPT !.pending = @ - 1]

\* A slip: the wait is resolved although a compaction is in flight.
maybeResolveIgnoringInFlight(c) ==
  IF c.pending = 0
    THEN [c EXCEPT !.promise = FALSE,
                   !.waiters = IF c.promise THEN ResolveShared(@) ELSE @]
    ELSE c

maybeResolveCompactionWait(c) ==
  IF c.pending = 0 /\ ~c.inFlight
    THEN [c EXCEPT !.promise = FALSE,
                   !.waiters = IF c.promise THEN ResolveShared(@) ELSE @]
    ELSE c

resolveCompactionRetry(c) ==
  IF c.pending <= 0 THEN c
  ELSE maybeResolveCompactionWait([c EXCEPT !.pending = @ - 1])

\* Whether going to the compaction state c resolves the promise a waiter holds.
Releases(c) == \E w \in Waiters : waiters[w] = "awaiting" /\ c.waiters[w] = "released"

SetCompaction(c) ==
  /\ compactionInFlight' = c.inFlight
  /\ pendingCompactionRetry' = c.pending
  /\ compactionRetryPromise' = c.promise
  /\ waiters' = c.waiters

\* A slip: the reset leaves assistantTexts as they are.
resetKeepingAssistantTexts ==
  LET d == DebouncerFlush(toolPending, toolPartials)
  IN  /\ assistantTexts' = assistantTexts
      /\ toolMetas' = <<>>
      /\ toolMetaById' = <<>>
      /\ deltaBuffer' = <<>>
      /\ blockBuffer' = <<>>
      /\ lastStreamedAssistant' = Undefined
      /\ lastBlockReplyText' = Undefined
      /\ assistantTextBaseline' = 0
      /\ suppressed' = FALSE
      /\ toolPending' = d.pending
      /\ toolPartials' = d.partials

resetForCompactionRetry ==
  LET d == DebouncerFlush(toolPending, toolPartials)
  IN  /\ assistantTexts' = <<>>
      /\ toolMetas' = <<>>
      /\ toolMetaById' = <<>>
      /\ deltaBuffer' = <<>>
      /\ blockBuffer' = <<>>
      /\ lastStreamedAssistant' = Undefined
      /\ lastBlockReplyText' = Undefined
      /\ assistantTextBaseline' = 0
      /\ suppressed' = FALSE
      /\ toolPending' = d.pending
      /\ toolPartials' = d.partials

AgentStart ==
  /\ CanEmit /\ env.nAgent < MaxAgentRuns
  /\ env' = [env EXCEPT !.nAgent = @ + 1, !.lastEvent = "agent_start"]
  /\ UNCHANGED <<params, hostVars, coordVars, textVars, toolVars, compactionVars>>

AutoCompactionStart ==
  /\ CanEmit /\ env.nCompaction < MaxCompactions
  /\ SetCompaction(ensureCompactionPromise([CompactionState EXCEPT !.inFlight = TRUE]))
  /\ env' = [env EXCEPT !.nCompaction = @ + 1, !.lastEvent = "auto_compaction_start",
                        !.stray = @ \/ compactionInFlight]
  /\ UNCHANGED <<params, hostVars, coordVars, textVars, toolVars>>

AutoCompactionEnd ==
  /\ CanEmit /\ env.nCompactionEnd < MaxCompactions
  /\ \E willRetry \in BOOLEAN :
       LET c    == [CompactionState EXCEPT !.inFlight = FALSE]
           done == maybeResolveCompactionWait(c)
       IN  IF willRetry
             THEN /\ SetCompaction(noteCompactionRetry(c))
                  /\ resetForCompactionRetry
                  /\ UNCHANGED <<partialReplies, blockReplies, toolReplies, toolEvent>>
                  /\ env' = [env EXCEPT
                               !.nCompactionEnd = @ + 1,
                               !.lastEvent = "auto_compaction_retry",
                               !.phase = "idle",
                               !.closedBlocks = <<>>, !.openBlock = <<>>,
                               !.textSinceRetry = 0,
                               !.started = <<>>, !.ends = <<>>,
                               !.stray = @ \/ ~compactionInFlight,
                               !.discarded =
                                  [texts  |-> Len(assistantTexts),
                                   metas  |-> Len(toolMetas),
                                   ids    |-> Cardinality(DOMAIN toolMetaById),
                                   buffer |-> Len(deltaBuffer)]]
             ELSE /\ SetCompaction(done)
                  /\ UNCHANGED <<textVars, toolVars>>
                  /\ env' = [env EXCEPT
                               !.nCompactionEnd = @ + 1,
                               !.lastEvent = "auto_compaction_end",
                               !.stray = @ \/ ~compactionInFlight,
                               !.releasedBy = IF Releases(done)
                                                THEN "auto_compaction_end" ELSE @]
  /\ UNCHANGED <<params, hostVars, coordVars>>

AgentEnd ==
  /\ CanEmit /\ env.nAgentEnd < MaxAgentRuns
  /\ LET d == DebouncerFlush(toolPending, toolPartials)
     IN  toolPending' = d.pending /\ toolPartials' = d.partials
  /\ LET c == IF pendingCompactionRetry > 0
                THEN resolveCompactionRetry(CompactionState)
                ELSE maybeResolveCompactionWait(CompactionState)
     IN  /\ SetCompaction(c)
         /\ env' = [env EXCEPT !.nAgentEnd = @ + 1, !.lastEvent = "agent_end",
                               !.releasedBy = IF Releases(c) THEN "agent_end" ELSE @]
  /\ UNCHANGED <<params, hostVars, coordVars, textVars, toolMetas, toolMetaById,
                 toolReplies, toolEvent>>

\* A consumer calls waitForCompactionRetry().
\* A slip: the microtask waits for the shared promise whatever the state.
WaiterMicrotaskAlwaysAwaits ==
  /\ \E w \in Waiters :
       /\ waiters[w] = "queued"
       /\ SetCompaction(
            [ensureCompactionPromise(CompactionState) EXCEPT !.waiters[w] = "awaiting"])
  /\ UNCHANGED <<params, hostVars, coordVars, textVars, toolVars, env>>

WaitForCompactionRetry ==
  /\ CanEmit
  /\ \E w \in Waiters :
       /\ waiters[w] = "none"
       /\ \A v \in Waiters : v < w => waiters[v] # "none"
       /\ IF compactionInFlight \/ pendingCompactionRetry > 0
            THEN SetCompaction(
                   [ensureCompactionPromise(CompactionState)
                      EXCEPT !.waiters[w] = "awaiting"])
            ELSE SetCompaction([CompactionState EXCEPT !.waiters[w] = "queued"])
  /\ UNCHANGED <<params, hostVars, coordVars, textVars, toolVars, env>>

\* The microtask queued by waitForCompactionRetry runs.
WaiterMicrotask ==
  /\ \E w \in Waiters :
       /\ waiters[w] = "queued"
       /\ IF compactionInFlight \/ pendingCompactionRetry > 0
            THEN SetCompaction(
                   [ensureCompactionPromise(CompactionState)
                      EXCEPT !.waiters[w] = "awaiting"])
            ELSE SetCompaction([CompactionState EXCEPT !.waiters[w] = "passed"])
  /\ UNCHANGED <<params, hostVars, coordVars, textVars, toolVars, env>>

(***************************************************************************)
(* The run coordinator: submit(session, event), the queue policy for       *)
(* inputs that arrive while the session has a run, and cancellation.       *)
(*                                                                         *)
(* A session has a history, its pendingInputs, its activeRun (NoRun for    *)
(* nil) and a record of the run that ended last.  submit creates the       *)
(* session's run, "starting", and queues it for capacity; the run is       *)
(* "streaming" from the moment it holds one of the maxConcurrent places.   *)
(* An item is an inbound event, known by the number it passed the gate     *)
(* with, or the synthetic "N messages while you were busy" item, whose id  *)
(* is 0.  The inputs here are the ones left after debounce.                *)
(*                                                                         *)
(* coordinator holds the configuration (queue, maxConcurrent) and a        *)
(* ledger: how many inputs the gate accepted, which of them the drop rule  *)
(* dropped, and the sessions whose runs hold a place; an input the gate    *)
(* rejects leaves no trace.                                                *)
(***************************************************************************)

SessionKeys == {"s1", "s2"}

QueueModes == {"steer", "followup", "collect", "steer-backlog", "interrupt"}

DropRules == {"old", "new", "summarize"}

MaxInputs == 4

Item(i) == [id |-> i, count |-> 1]

Summary(n) == [id |-> 0, count |-> n]

NoRun == [state |-> "none", input |-> <<>>, cancelFlag |-> FALSE, buffered |-> FALSE]

NoLastRun ==
  [state |-> "none", cancelled |-> FALSE, buffered |-> FALSE, finalBlock |-> FALSE]

\* QueuedInput.disposition, determined at enqueue time from the queue mode:
\* steer-backlog steers, interrupt holds the input for the run that follows.
Disposition(mode) ==
  CASE mode \in {"steer", "steer-backlog"} -> "steer"
    [] mode = "followup" -> "followup"
    [] OTHER -> "collect"

QueuedInput(item, mode) ==
  [event |-> item, disposition |-> Disposition(mode), merged |-> FALSE]

RECURSIVE Messages(_)
\* The messages a backlog stands for.
Messages(pending) ==
  IF pending = <<>> THEN 0 ELSE Head(pending).event.count + Messages(Tail(pending))

EventIds(pending) == {pending[i].event.id : i \in DOMAIN pending} \ {0}

\* A mutant of Enqueue: over the cap, summarize keeps the newest items.
EnqueueTruncating(pending, queued, queue) ==
  IF Len(pending) < queue.cap
    THEN [pending |-> Append(pending, queued), dropped |-> {}]
  ELSE IF queue.drop = "new"
    THEN [pending |-> pending, dropped |-> {queued.event.id}]
  ELSE [pending |-> Append(Tail(pending), queued),
        dropped |-> EventIds(<<Head(pending)>>)]

\* Cap and drop rule: with more than cap items queued, old discards the
\* oldest, new rejects the incoming, summarize collapses the backlog.
Enqueue(pending, queued, queue) ==
  IF Len(pending) < queue.cap
    THEN [pending |-> Append(pending, queued), dropped |-> {}]
  ELSE IF queue.drop = "old"
    THEN [pending |-> Append(Tail(pending), queued),
          dropped |-> EventIds(<<Head(pending)>>)]
  ELSE IF queue.drop = "new"
    THEN [pending |-> pending, dropped |-> {queued.event.id}]
  ELSE [pending |-> <<[queued EXCEPT
                         !.event = Summary(Messages(pending) + queued.event.count)]>>,
        dropped |-> EventIds(pending) \cup {queued.event.id}]

RECURSIVE Dedupe(_, _)
\* The items in order, each once.
Dedupe(items, seen) ==
  IF items = <<>> THEN <<>>
  ELSE IF Head(items) \in seen THEN Dedupe(Tail(items), seen)
  ELSE <<Head(items)>> \o Dedupe(Tail(items), seen \cup {Head(items)})

\* The input of the run that follows: the concatenation of the queued items.
Collected(pending) == Dedupe([i \in DOMAIN pending |-> pending[i].event], {})

ItemIds(items) == {items[i].id : i \in DOMAIN items} \ {0}

\* A mutant of Submit: it does not look at the session's run.
SubmitAnyway(key, id) ==
  /\ sessions' = [sessions EXCEPT
       ![key].activeRun = [NoRun EXCEPT !.state = "starting", !.input = <<Item(id)>>]]
  /\ runQueue' = Append(runQueue, key)
  /\ coordinator' = [coordinator EXCEPT !.nInputs = id]

\* submit(session, event): the session being free, its run is created and
\* queued for capacity; the session having a run, the queue policy takes the
\* input, and interrupt cancels the run.
Submit(key, id) ==
  IF sessions[key].activeRun = NoRun
    THEN /\ sessions' = [sessions EXCEPT
               ![key].activeRun =
                  [NoRun EXCEPT !.state = "starting", !.input = <<Item(id)>>]]
         /\ runQueue' = Append(runQueue, key)
         /\ coordinator' = [coordinator EXCEPT !.nInputs = id]
    ELSE LET Queue(d) ==
               /\ sessions' = [sessions EXCEPT
                    ![key].pendingInputs = d.pending,
                    ![key].activeRun.cancelFlag =
                       @ \/ coordinator.queue.mode = "interrupt"]
               /\ coordinator' = [coordinator EXCEPT
                    !.nInputs = id, !.dropped = @ \cup d.dropped]
         IN  /\ Queue(Enqueue(sessions[key].pendingInputs,
                              QueuedInput(Item(id), coordinator.queue.mode),
                              coordinator.queue))
             /\ UNCHANGED runQueue

\* An inbound event for the session: the gate rejects it, silently, or it is
\* submitted.
Arrive(key) ==
  /\ coordinator.nInputs < MaxInputs
  /\ \E accepted \in BOOLEAN :
       IF accepted THEN Submit(key, coordinator.nInputs + 1)
       ELSE UNCHANGED <<sessions, runQueue, coordinator>>
  /\ UNCHANGED <<params, hostVars, textVars, toolVars, compactionVars, env>>

\* A mutant of StartRun: the submission made last starts first.
StartRunNewest ==
  /\ runQueue # <<>>
  /\ Len(coordinator.running) < coordinator.maxConcurrent
  /\ sessions' = [sessions EXCEPT
       ![runQueue[Len(runQueue)]].activeRun.state = "streaming",
       ![runQueue[Len(runQueue)]].lastRun = NoLastRun,
       ![runQueue[Len(runQueue)]].history =
          @ \o sessions[runQueue[Len(runQueue)]].activeRun.input]
  /\ runQueue' = SubSeq(runQueue, 1, Len(runQueue) - 1)
  /\ coordinator' = [coordinator EXCEPT !.running = Append(@, runQueue[Len(runQueue)])]
  /\ UNCHANGED <<params, hostVars, textVars, toolVars, compactionVars, env>>

\* Capacity is free: the submission that waited longest starts, and its input
\* enters the session's history.
StartRun ==
  /\ runQueue # <<>>
  /\ Len(coordinator.running) < coordinator.maxConcurrent
  /\ sessions' = [sessions EXCEPT
       ![Head(runQueue)].activeRun.state = "streaming",
       ![Head(runQueue)].lastRun = NoLastRun,
       ![Head(runQueue)].history = @ \o sessions[Head(runQueue)].activeRun.input]
  /\ runQueue' = Tail(runQueue)
  /\ coordinator' = [coordinator EXCEPT !.running = Append(@, Head(runQueue))]
  /\ UNCHANGED <<params, hostVars, textVars, toolVars, compactionVars, env>>

\* The run streams assistant text, some of it buffered below a block.
Stream(key) ==
  /\ sessions[key].activeRun.state = "streaming"
  /\ ~sessions[key].activeRun.cancelFlag
  /\ ~sessions[key].activeRun.buffered
  /\ sessions' = [sessions EXCEPT ![key].activeRun.buffered = TRUE]
  /\ UNCHANGED <<runQueue, coordinator, hostVars, params, textVars, toolVars, compactionVars,
                 env>>

Mergeable(queued) == queued.disposition \in {"steer", "followup"} /\ ~queued.merged

\* The run's turn completes: the steered and the follow-up inputs are merged
\* into the run; steer-backlog keeps them for the run that follows.
Turn(key) ==
  /\ sessions[key].activeRun.state = "streaming"
  /\ ~sessions[key].activeRun.cancelFlag
  /\ \E i \in DOMAIN sessions[key].pendingInputs :
       Mergeable(sessions[key].pendingInputs[i])
  /\ LET Merged(pending) == SelectSeq(pending, Mergeable)
         Kept(pending) ==
           IF coordinator.queue.mode = "steer-backlog"
             THEN [i \in DOMAIN pending |-> [pending[i] EXCEPT !.merged = TRUE]]
             ELSE SelectSeq(pending, LAMBDA q : ~Mergeable(q))
         Take(items) ==
           sessions' = [sessions EXCEPT
              ![key].history = @ \o items,
              ![key].activeRun.input = @ \o items,
              ![key].pendingInputs = Kept(@)]
     IN  Take(Collected(Merged(sessions[key].pendingInputs)))
  /\ UNCHANGED <<runQueue, coordinator, hostVars, params, textVars, toolVars, compactionVars,
                 env>>

\* The sessions that hold a place, without one place of key.
RECURSIVE Release(_, _)
Release(running, key) ==
  IF running = <<>> THEN <<>>
  ELSE IF Head(running) = key THEN Tail(running)
  ELSE <<Head(running)>> \o Release(Tail(running), key)

LastRun(run, cancelled, finalBlock) ==
  [state |-> "ending", cancelled |-> cancelled, buffered |-> run.buffered,
   finalBlock |-> finalBlock]

\* A mutant of EndRun: a cancelled run keeps the session and its place.
EndRunKeepingLock(key, cancelled) ==
  IF cancelled
    THEN /\ sessions' = [sessions EXCEPT
               ![key].activeRun.state = "ending",
               ![key].lastRun = LastRun(sessions[key].activeRun, TRUE,
                                        sessions[key].activeRun.buffered)]
         /\ UNCHANGED <<runQueue, coordinator>>
    ELSE /\ sessions' = [sessions EXCEPT
               ![key].activeRun = NoRun,
               ![key].pendingInputs = <<>>,
               ![key].lastRun = LastRun(sessions[key].activeRun, FALSE,
                                        sessions[key].activeRun.buffered)]
         /\ runQueue' = runQueue
         /\ coordinator' = [coordinator EXCEPT !.running = Release(@, key)]

\* A mutant of EndRun: the pending inputs stay where they are.
EndRunWithoutFlush(key, cancelled) ==
  /\ sessions' = [sessions EXCEPT
       ![key].activeRun = NoRun,
       ![key].lastRun = LastRun(sessions[key].activeRun, cancelled,
                                sessions[key].activeRun.buffered)]
  /\ runQueue' = runQueue
  /\ coordinator' = [coordinator EXCEPT !.running = Release(@, key)]

\* A mutant of EndRun: the pending inputs are discarded.
EndRunDiscarding(key, cancelled) ==
  /\ sessions' = [sessions EXCEPT
       ![key].activeRun = NoRun,
       ![key].pendingInputs = <<>>,
       ![key].lastRun = LastRun(sessions[key].activeRun, cancelled,
                                sessions[key].activeRun.buffered)]
  /\ runQueue' = runQueue
  /\ coordinator' = [coordinator EXCEPT !.running = Release(@, key)]

\* The run ends: what is buffered goes out as the final block, the run is
\* marked ending and the session and the place are released; the pending
\* inputs are flushed into the run that follows, which is submitted.
EndRun(key, cancelled) ==
  /\ sessions' = [sessions EXCEPT
       ![key].activeRun =
          IF sessions[key].pendingInputs = <<>> THEN NoRun
          ELSE [NoRun EXCEPT !.state = "starting",
                             !.input = Collected(sessions[key].pendingInputs)],
       ![key].pendingInputs = <<>>,
       ![key].lastRun = LastRun(sessions[key].activeRun, cancelled,
                                sessions[key].activeRun.buffered)]
  /\ runQueue' =
       IF sessions[key].pendingInputs = <<>> THEN runQueue ELSE Append(runQueue, key)
  /\ coordinator' = [coordinator EXCEPT !.running = Release(@, key)]

RunEnd(key) ==
  /\ sessions[key].activeRun.state = "streaming"
  /\ ~sessions[key].activeRun.cancelFlag
  /\ EndRun(key, FALSE)
  /\ UNCHANGED <<params, hostVars, textVars, toolVars, compactionVars, env>>

\* The run's cancellation token is triggered.
Cancel(key) ==
  /\ sessions[key].activeRun # NoRun
  /\ ~sessions[key].activeRun.cancelFlag
  /\ sessions' = [sessions EXCEPT ![key].activeRun.cancelFlag = TRUE]
  /\ UNCHANGED <<runQueue, coordinator, hostVars, params, textVars, toolVars, compactionVars,
                 env>>

\* The runner sees the token.
Cancelled(key) ==
  /\ sessions[key].activeRun.state = "streaming"
  /\ sessions[key].activeRun.cancelFlag
  /\ EndRun(key, TRUE)
  /\ UNCHANGED <<params, hostVars, textVars, toolVars, compactionVars, env>>

QueueConfig(mode, cap, drop) == [mode |-> mode, cap |-> cap, drop |-> drop]

\* routing.queue as documented, agent.maxConcurrent at its default.
DefaultConfigs == [queue : {QueueConfig("collect", 20, "summarize")}, maxConcurrent : {1}]

\* No session has run yet.
InitRuns(configs) ==
  /\ sessions = [k \in SessionKeys |->
                   [history |-> <<>>, pendingInputs |-> <<>>, activeRun |-> NoRun,
                    lastRun |-> NoLastRun]]
  /\ runQueue = <<>>
  /\ \E config \in configs :
       coordinator = [queue |-> config.queue, maxConcurrent |-> config.maxConcurrent,
                      nInputs |-> 0, dropped |-> {}, running |-> <<>>]

(***************************************************************************)
(* Heartbeat scheduler                                                     *)
(***************************************************************************)

\* The ticks the scheduler makes in a run of the model.
MaxTicks == 3

\* The base cadence of a job and the first delay after a failure, in one unit.
Cadence == 4
FirstBackoff == 1

\* A job that has not fired: no event, the next fire one cadence away.
NoHeartbeatEvent == [ts |-> 0, status |-> "none"]
IdleJob == [nextFire |-> Cadence, failures |-> 0, last |-> NoHeartbeatEvent]

\* The delay after the n-th failure in a row: doubled each time, at most the
\* base cadence.
RECURSIVE Backoff(_)
Backoff(n) ==
  IF n <= 1 THEN FirstBackoff
  ELSE IF 2 * Backoff(n - 1) > Cadence THEN Cadence ELSE 2 * Backoff(n - 1)

IdleHeartbeat ==
  [degraded |-> FALSE, now |-> 0, nTicks |-> 0, tickOf |-> "none",
   jobs |-> [k \in SessionKeys |-> IdleJob]]

\* The event of the tick replaces the last one of the job, which fires next
\* after the delay.
Record(key, status, delay, failures) ==
  heartbeat' = [heartbeat EXCEPT
    !.nTicks = @ + 1, !.tickOf = key, !.now = @ + 1,
    !.jobs[key] = [nextFire |-> heartbeat.now + 1 + delay, failures |-> failures,
                   last |-> [ts |-> heartbeat.now + 1, status |-> status]]]

\* A mutant of HeartbeatTick: it submits whatever the session does.
HeartbeatTickAnyway(key) ==
  /\ heartbeat.nTicks < MaxTicks
  /\ coordinator.nInputs < MaxInputs
  /\ IF heartbeat.degraded
       THEN /\ Record(key, "failed", Backoff(heartbeat.jobs[key].failures + 1),
                      heartbeat.jobs[key].failures + 1)
            /\ UNCHANGED coordVars
       ELSE /\ Submit(key, coordinator.nInputs + 1)
            /\ Record(key, "sent", Cadence, 0)
  /\ UNCHANGED <<params, textVars, toolVars, compactionVars, gate, hooks, xpc, setup, env>>

\* A tick of the job of the session: skipped while the session has a run,
\* failed while the control channel is degraded, a run with the heartbeat
\* prompt otherwise.
HeartbeatTick(key) ==
  /\ heartbeat.nTicks < MaxTicks
  /\ coordinator.nInputs < MaxInputs
  /\ IF sessions[key].activeRun # NoRun
       THEN /\ Record(key, "skipped", Cadence, heartbeat.jobs[key].failures)
            /\ UNCHANGED coordVars
       ELSE IF heartbeat.degraded
       THEN /\ Record(key, "failed", Backoff(heartbeat.jobs[key].failures + 1),
                      heartbeat.jobs[key].failures + 1)
            /\ UNCHANGED coordVars
       ELSE /\ Submit(key, coordinator.nInputs + 1)
            /\ Record(key, "sent", Cadence, 0)
  /\ UNCHANGED <<params, textVars, toolVars, compactionVars, gate, hooks, xpc, setup, env>>

\* The control channel becomes degraded, or recovers.
ControlChannel ==
  /\ heartbeat' = [heartbeat EXCEPT !.degraded = ~@]
  /\ UNCHANGED <<params, coordVars, textVars, toolVars, compactionVars, gate, hooks,
                 xpc, setup, env>>

(***************************************************************************)
(* Gate                                                                    *)
(***************************************************************************)

\* The operator's own number, a number of the documented allowlist and a
\* number that is in no list.
OwnNumber == "+15555550123"
FriendNumber == "+447700900123"
StrangerNumber == "+4915550001"

GroupIds == {"g1", "g2"}
Wildcard == "*"

\* requireMention of a group entry: not given, true or false.
MentionRules == {"unset", "yes", "no"}

LowerText(s) == [i \in 1..Len(s) |-> Lower(s[i])]

\* A mention pattern without metacharacters, matched anywhere in the body
\* without regard to case.
MatchesPattern(body, pattern) == Includes(LowerText(body), LowerText(pattern))

\* whatsapp.allowFrom: empty, the allowlist is the own number.
EffectiveAllowFrom(config) ==
  IF config.allowFrom = {} THEN {config.self} ELSE config.allowFrom

\* Self-chat mode: the own number is in the allowlist.
SelfChatMode(config) == config.self \in EffectiveAllowFrom(config)

\* The group is selected by its id, or by the wildcard entry.
GroupSelected(config, id) ==
  id \in DOMAIN config.groups \/ Wildcard \in DOMAIN config.groups

\* Groups require a mention unless an entry says otherwise; the entry of the
\* group wins over the wildcard entry.
RequireMention(config, id) ==
  LET Rule(name) == IF name \in DOMAIN config.groups THEN config.groups[name] ELSE "unset"
  IN  IF Rule(id) # "unset" THEN Rule(id) = "yes"
      ELSE IF Rule(Wildcard) # "unset" THEN Rule(Wildcard) = "yes"
      ELSE TRUE

\* A mutant of Mentioned: the metadata mention counts in every mode.
MentionedInEveryMode(config, event) ==
  \/ event.mentionsBot
  \/ \E pattern \in config.mentionPatterns : MatchesPattern(event.body, pattern)

\* A native mention counts except in self-chat mode; a text pattern counts always.
Mentioned(config, event) ==
  \/ event.mentionsBot /\ ~SelfChatMode(config)
  \/ \E pattern \in config.mentionPatterns : MatchesPattern(event.body, pattern)

Accept(sessionHint) == [accept |-> TRUE, reason |-> "none", sessionHint |-> sessionHint]
Reject(reason) == [accept |-> FALSE, reason |-> reason, sessionHint |-> "none"]
NoDecision == [accept |-> FALSE, reason |-> "undecided", sessionHint |-> "none"]

\* The rules of the gate, in their order.
Gate(config, event) ==
  IF ~event.wellFormed THEN Reject("malformed")
  ELSE IF ~config.enabled THEN Reject("disabled")
  ELSE IF event.chatType = "direct"
    THEN IF event.from \in EffectiveAllowFrom(config)
           THEN Accept(event.from) ELSE Reject("allowFrom")
  ELSE IF ~GroupSelected(config, event.group) THEN Reject("group")
  ELSE IF RequireMention(config, event.group) /\ ~Mentioned(config, event)
    THEN Reject("mention")
  ELSE Accept(event.group)

NoInbound ==
  [wellFormed |-> FALSE, chatType |-> "none", from |-> "none", group |-> "none",
   body |-> <<>>, mentionsBot |-> FALSE]

GateConfig(enabled, allowFrom, groups, mentionPatterns) ==
  [enabled |-> enabled, self |-> OwnNumber, allowFrom |-> allowFrom,
   groups |-> groups, mentionPatterns |-> mentionPatterns]

\* The configuration documented for text triggers only.
TextTriggerConfig ==
  GateConfig(TRUE, {OwnNumber}, [name \in {Wildcard} |-> "yes"],
             {<<"@", "c", "l", "a", "w", "d">>})

IdleGate == [config |-> TextTriggerConfig, event |-> NoInbound, decision |-> NoDecision]

\* The gate decides an inbound event; it changes nothing else.
Inbound(events) ==
  /\ gate.decision = NoDecision
  /\ \E event \in events :
       gate' = [gate EXCEPT !.event = event, !.decision = Gate(gate.config, event)]
  /\ UNCHANGED <<params, coordVars, textVars, toolVars, compactionVars, heartbeat,
                 hooks, xpc, setup, env>>

(***************************************************************************)
(* Webhook ingestor                                                        *)
(***************************************************************************)

\* The requests the ingestor answers in a run of the model.
MaxRequests == 2

\* hooks.token, and a token that is not it.
HookToken == "shared-secret"
WrongToken == "guess"
NoToken == "none"

\* The session of wakes and of /hooks/agent without a sessionKey.
MainKey == "s1"

\* hooks.mappings: /hooks/gmail is an agent action on a session of its own.
HookMappings == [gmail |-> [action |-> "agent", sessionKey |-> "s2"]]

\* The places a request can carry a token in: the Authorization header with the
\* Bearer scheme, the headers x-clawdis-token and x-gateway-token, and the
\* token parameter of the query.
Carriers == {"bearer", "x-clawdis-token", "x-gateway-token", "query"}

\* The places the ingestor reads the token from.
HookCarriers == {"bearer", "x-clawdis-token", "query"}

\* A mutant of Authorized: a token in a carrier is enough.
AuthorizedByAnyToken(request) ==
  \E carrier \in HookCarriers : request.tokens[carrier] # NoToken

\* The request includes the hook token.
Authorized(request) ==
  \E carrier \in HookCarriers : request.tokens[carrier] = HookToken

\* The action a path stands for: wake, agent, or what the mapping says.
HookAction(request) ==
  IF request.path \in DOMAIN HookMappings
    THEN [action |-> HookMappings[request.path].action,
          sessionKey |-> HookMappings[request.path].sessionKey]
    ELSE [action |-> request.path, sessionKey |-> request.sessionKey]

NoRequest ==
  [path |-> "none", tokens |-> [carrier \in Carriers |-> NoToken], body |-> "ok",
   mode |-> "now", sessionKey |-> MainKey]

IdleHooks ==
  [token |-> HookToken, nRequests |-> 0, request |-> NoRequest, status |-> 0,
   wakes |-> [now |-> 0, deferred |-> 0]]

Answer(request, status) ==
  [hooks EXCEPT !.nRequests = @ + 1, !.request = request, !.status = status]

\* A wake: now, the heartbeat of the main session is due at once; otherwise it
\* is left to the next heartbeat.
Wake(request) ==
  /\ hooks' = [Answer(request, 200) EXCEPT
                 !.wakes.now = @ + (IF request.mode = "now" THEN 1 ELSE 0),
                 !.wakes.deferred = @ + (IF request.mode = "now" THEN 0 ELSE 1)]
  /\ heartbeat' = IF request.mode = "now"
                    THEN [heartbeat EXCEPT !.jobs[MainKey].nextFire = heartbeat.now]
                    ELSE heartbeat
  /\ UNCHANGED coordVars

\* One request: the token first, then the size of the body, then its form,
\* then the action.
HookRequest(requests) ==
  /\ hooks.nRequests < MaxRequests
  /\ coordinator.nInputs < MaxInputs
  /\ \E request \in requests :
       IF ~Authorized(request)
         THEN hooks' = Answer(request, 401) /\ UNCHANGED <<coordVars, heartbeat>>
       ELSE IF request.body = "large"
         THEN hooks' = Answer(request, 413) /\ UNCHANGED <<coordVars, heartbeat>>
       ELSE IF request.body = "malformed"
         THEN hooks' = Answer(request, 400) /\ UNCHANGED <<coordVars, heartbeat>>
       ELSE IF HookAction(request).action = "wake"
         THEN Wake(request)
       ELSE /\ Submit(HookAction(request).sessionKey, coordinator.nInputs + 1)
            /\ hooks' = Answer(request, 200)
            /\ UNCHANGED heartbeat
  /\ UNCHANGED <<params, textVars, toolVars, compactionVars, gate, xpc, setup, env>>

(***************************************************************************)
(* XPC listener of the menu bar app                                        *)
(***************************************************************************)

\* The connections the listener is asked about in a run of the model.
MaxConnections == 2

allowedTeamIDs == {"Y5PE65HELJ"}

\* getuid() of the app.
OwnUid == 501

\* What sysctl gives for a process that is gone, and what the signing
\* information gives for code without a team identifier.
NoUid == 0 - 1
NoTeamID == "none"

\* SecCodeCopyGuestWithAttributes, SecCodeCopyStaticCode and
\* SecCodeCopySigningInformation succeeded and gave a team identifier that is
\* in the set.
teamIDMatches(connection) ==
  /\ connection.signing = "ok"
  /\ connection.teamID # NoTeamID
  /\ connection.teamID \in allowedTeamIDs

isAllowed(connection) ==
  IF ~(connection.processIdentifier > 0) THEN FALSE
  ELSE IF connection.uid # NoUid /\ connection.uid = OwnUid THEN TRUE
  ELSE IF teamIDMatches(connection) THEN TRUE
  ELSE FALSE

IdleXpc == [listener |-> "none", connections |-> <<>>]

\* applicationDidFinishLaunching: a duplicate instance terminates, the first
\* one starts the listener.
applicationDidFinishLaunching ==
  /\ xpc.listener = "none"
  /\ \E isDuplicateInstance \in BOOLEAN :
       xpc' = [xpc EXCEPT
                 !.listener = IF isDuplicateInstance THEN "terminated" ELSE "resumed"]
  /\ UNCHANGED <<params, coordVars, textVars, toolVars, compactionVars, heartbeat,
                 gate, hooks, setup, env>>

\* listener(_:shouldAcceptNewConnection:): a connection that is not allowed is
\* invalidated and refused, an allowed one gets the exported object and is
\* resumed.
shouldAcceptNewConnection(clients) ==
  /\ xpc.listener = "resumed"
  /\ Len(xpc.connections) < MaxConnections
  /\ \E connection \in clients :
       xpc' = [xpc EXCEPT !.connections =
                 Append(@, [client |-> connection,
                            state |-> IF isAllowed(connection)
                                        THEN "resumed" ELSE "invalidated",
                            accepted |-> isAllowed(connection)])]
  /\ UNCHANGED <<params, coordVars, textVars, toolVars, compactionVars, heartbeat,
                 gate, hooks, setup, env>>

(***************************************************************************)
(* setup.sh                                                                *)
(***************************************************************************)

\* The times setup.sh is started in a run of the model.
MaxRuns == 3

\* The users setup.sh is run for: root, the operator who calls sudo, and a
\* user of its own for OpenClaw.
SudoUser == "felix"
TargetUsers == {"root", SudoUser, "openclaw"}

\* What setup.sh creates on the host.  Of the target user: the directories
\* SOURCE_DIR, CONTAINERS_DIR and CONFIG_DIR with the files written into
\* them, the aliases in .bashrc, /etc/sudoers.d/openclaw-<user>, ~/test.sh and
\* the account.  Of the host: Docker, the containers, the volume, the image
\* built and the image pulled.
DirArtefacts == {"SOURCE_DIR", "CONTAINERS_DIR", "CONFIG_DIR"}
FileArtefacts == {".env", "openclaw.json", "docker-compose.yml"}
HomeArtefacts == DirArtefacts \cup FileArtefacts \cup {"aliases", "test.sh"}
DockerArtefacts == {"containers", "volumes", "image"}

Of(names, owner) == {<<name, owner>> : name \in names}

\* main, the full install: everything from create_user to install_test_script.
Installed(user) ==
  Of(HomeArtefacts \cup {"sudoers", "account"}, user)
    \cup Of(DockerArtefacts \cup {"docker", "ollama-image"}, "host")

\* What run_uninstall removes: docker compose down -v, docker rm, docker
\* volume rm, docker rmi, rm -rf of the three directories, sed on .bashrc.
Uninstalled(user) ==
  Of(DirArtefacts \cup FileArtefacts \cup {"aliases"}, user) \cup Of(DockerArtefacts, "host")

\* userdel -r: the account and the home directory.
UserDeleted(user) == Of(HomeArtefacts \cup {"account"}, user)

\* The status of (( expression )): 1 when the value of the expression is 0.
ArithmeticStatus(value) == IF value = 0 THEN 1 ELSE 0

\* The nine checks of run_test and what each looks at.
Checks ==
  << [name |-> "Docker installed",          artefact |-> "docker",             host |-> TRUE],
     [name |-> "Source dir exists",         artefact |-> "SOURCE_DIR",         host |-> FALSE],
     [name |-> "Containers dir exists",     artefact |-> "CONTAINERS_DIR",     host |-> FALSE],
     [name |-> "Config dir exists",         artefact |-> "CONFIG_DIR",         host |-> FALSE],
     [name |-> "openclaw.json exists",      artefact |-> "openclaw.json",      host |-> FALSE],
     [name |-> ".env exists",               artefact |-> ".env",               host |-> FALSE],
     [name |-> "docker-compose.yml exists", artefact |-> "docker-compose.yml", host |-> FALSE],
     [name |-> "Gateway running",           artefact |-> "containers",         host |-> TRUE],
     [name |-> "Ollama running",            artefact |-> "containers",         host |-> TRUE] >>

\* eval "$2" of check.
CheckHolds(i, host, user) ==
  <<Checks[i].artefact, IF Checks[i].host THEN "host" ELSE user>> \in host

Line(kind, text) == [kind |-> kind, text |-> text, passed |-> 0, failed |-> 0]
Results(passed, failed) ==
  [kind |-> "Results", text |-> "", passed |-> passed, failed |-> failed]

\* run_test from its i-th check on, under set -e: the script ends with status
\* 1 at the first (( counter++ )) whose counter was 0; after the last check
\* come the totals and the status of [[ $failed -eq 0 ]].
RECURSIVE run_test(_, _, _, _, _, _)
run_test(i, passed, failed, out, host, user) ==
  IF i > Len(Checks)
    THEN [out |-> out \o <<Line("", ""), Results(passed, failed)>>,
          status |-> IF failed = 0 THEN 0 ELSE 1]
  ELSE IF CheckHolds(i, host, user)
    THEN IF ArithmeticStatus(passed) # 0
           THEN [out |-> Append(out, Line("PASS", Checks[i].name)), status |-> 1]
           ELSE run_test(i + 1, passed + 1, failed,
                         Append(out, Line("PASS", Checks[i].name)), host, user)
    ELSE IF ArithmeticStatus(failed) # 0
           THEN [out |-> Append(out, Line("FAIL", Checks[i].name)), status |-> 1]
           ELSE run_test(i + 1, passed, failed + 1,
                         Append(out, Line("FAIL", Checks[i].name)), host, user)

NoStatus == 0 - 1

NoArgs == [mode |-> "none", yes |-> FALSE, user |-> "root"]

\* No run yet on a host with the accounts of root and of the operator.
IdleSetup ==
  [args |-> NoArgs, stdin |-> "tty", pc |-> "idle", nRuns |-> 0,
   host |-> Of({"account"}, "root") \cup Of({"account"}, SudoUser),
   before |-> {}, reads |-> <<>>, prompts |-> <<>>, out |-> <<>>, status |-> NoStatus]

Exit(state, status) == [state EXCEPT !.pc = "exited", !.status = status]

Echo(state, kind, text) == [state EXCEPT !.out = Append(@, Line(kind, text))]

\* read -rp: the prompt is shown when the input is a terminal; at the end of
\* the input read fails and set -e ends the script.
Read(state, prompt) ==
  IF state.stdin = "tty"
    THEN [state EXCEPT !.reads = Append(@, prompt), !.prompts = Append(@, prompt),
                       !.pc = prompt]
    ELSE Exit([state EXCEPT !.reads = Append(@, prompt)], 1)

\* run_uninstall after its confirmation: the removal, then the question about
\* the user for a user that is neither root nor the operator.
Uninstall(state) ==
  LET Removed(st) == [st EXCEPT !.host = @ \ Uninstalled(st.args.user)]
  IN  IF state.args.user # "root" /\ state.args.user # SudoUser
        THEN Read(Removed(state), "Delete user")
        ELSE Exit(Echo(Removed(state), "OK", "Uninstall complete"), 0)

run_uninstall(state) ==
  IF ~state.args.yes THEN Read(state, "Type 'yes' to confirm") ELSE Uninstall(state)

\* run_update: the source and the containers directory must be there.
run_update(state) ==
  IF <<"SOURCE_DIR", state.args.user>> \notin state.host THEN Exit(state, 1)
  ELSE IF <<"CONTAINERS_DIR", state.args.user>> \notin state.host
    THEN Exit([state EXCEPT !.host = @ \cup Of({"image"}, "host")], 1)
  ELSE Exit(Echo([state EXCEPT !.host = @ \cup Of({"image", "containers"}, "host")],
                 "OK", "Update complete"), 0)

\* The full install from check_os on.
Install(state) ==
  Exit(Echo([state EXCEPT !.host = @ \cup Installed(state.args.user)],
            "OK", "OpenClaw Setup Complete!"), 0)

\* main: the modes in their order; the full install asks to proceed unless -y
\* was given or the input is no terminal.
main(state, root) ==
  IF state.args.mode = "test"
    THEN LET Tested(r) == Exit([state EXCEPT !.out = r.out], r.status)
         IN  Tested(run_test(1, 0, 0, <<>>, state.host, state.args.user))
  ELSE IF state.args.mode = "uninstall" THEN run_uninstall(state)
  ELSE IF state.args.mode = "update" THEN run_update(state)
  ELSE IF ~root THEN Exit(state, 1)
  ELSE IF ~state.args.yes /\ state.stdin = "tty" THEN Read(state, "Proceed?")
  ELSE Install(state)

\* setup.sh is started with its options; it runs to its end or to its first read.
Start(invocations) ==
  /\ setup.pc \in {"idle", "exited"}
  /\ setup.nRuns < MaxRuns
  /\ \E inv \in invocations :
       setup' = main([setup EXCEPT
                        !.args = inv.args, !.stdin = inv.stdin, !.nRuns = @ + 1,
                        !.before = setup.host, !.reads = <<>>, !.prompts = <<>>,
                        !.out = <<>>, !.status = NoStatus, !.pc = "running"],
                     inv.root)
  /\ UNCHANGED <<params, coordVars, textVars, toolVars, compactionVars, heartbeat,
                 gate, hooks, xpc, env>>

\* The operator answers the read the script waits in.
OperatorAnswers(answers) ==
  /\ setup.pc \notin {"idle", "exited"}
  /\ \E answer \in answers :
       setup' =
         IF setup.pc = "Proceed?"
           THEN IF LowerText(answer) = <<"n">>
                  THEN Exit(Echo(setup, "", "Cancelled."), 0) ELSE Install(setup)
         ELSE IF setup.pc = "Type 'yes' to confirm"
           THEN IF answer # <<"y", "e", "s">>
                  THEN Exit(Echo(setup, "", "Cancelled."), 0) ELSE Uninstall(setup)
         ELSE Exit(Echo([setup EXCEPT !.host =
                           IF answer = <<"D", "E", "L", "E", "T", "E">>
                             THEN @ \ UserDeleted(setup.args.user) ELSE @],
                        "OK", "Uninstall complete"), 0)
  /\ UNCHANGED <<params, coordVars, textVars, toolVars, compactionVars, heartbeat,
                 gate, hooks, xpc, env>>

(***************************************************************************)
(* Initial states and specifications                                       *)
(***************************************************************************)

(***************************************************************************)
(* drainBlockBuffer, one step at a time                                    *)
(***************************************************************************)

SetBlockState(st) ==
  /\ blockBuffer' = st.blockBuffer
  /\ lastBlockReplyText' = st.lastBlockReplyText
  /\ assistantTexts' = st.assistantTexts
  /\ blockReplies' = st.blockReplies
  /\ suppressed' = st.suppressed

\* drainBlockBuffer(force) up to its loop (lines 259-267).
DrainEnter ==
  /\ env.drain.at = "called"
  /\ LET force == env.drain.force
         buf   == blockBuffer
         Go(st, at) ==
           /\ SetBlockState(st)
           /\ env' = [env EXCEPT !.drain.at = at]
     IN  IF ~blockChunking.set THEN Go(BlockState, "returned")
         ELSE IF force /\ Len(buf) > 0 /\ Len(buf) <= ChunkMax
           THEN Go([emitBlockChunk(BlockState, buf) EXCEPT !.blockBuffer = <<>>],
                   "returned")
         ELSE IF Len(buf) < ChunkMin /\ ~force THEN Go(BlockState, "returned")
         ELSE Go(BlockState, "loop")
  /\ UNCHANGED <<params, hostVars, coordVars, toolVars, compactionVars, deltaBuffer,
                 lastStreamedAssistant, assistantTextBaseline, partialReplies>>

\* The loop of drainBlockBuffer tests its condition and runs its body once
\* (lines 268-290).
DrainIterate ==
  /\ env.drain.at = "loop"
  /\ LET force == env.drain.force
         Go(r) ==
           /\ SetBlockState(r.st)
           /\ env' = [env EXCEPT
                        !.drain.at = IF r.returned THEN "returned" ELSE "loop",
                        !.drain.iterations = Min(@ + 1, 2)]
     IN  IF ~DrainCondition(BlockState, force)
           THEN /\ SetBlockState(BlockState)
                /\ env' = [env EXCEPT !.drain.at = "returned"]
           ELSE Go(DrainIteration(BlockState, force))
  /\ UNCHANGED <<params, hostVars, coordVars, toolVars, compactionVars, deltaBuffer,
                 lastStreamedAssistant, assistantTextBaseline, partialReplies>>

NoChunking == [set |-> FALSE, minChars |-> 0, maxChars |-> 0, breakPreference |-> "paragraph"]

Chunking(minChars, maxChars, preference) ==
  [set |-> TRUE, minChars |-> minChars, maxChars |-> maxChars,
   breakPreference |-> preference]

\* The state subscribeEmbeddedPiSession returns with (lines 113-125), for options
\* drawn from paramSet and an agent that streams the deltas of alphabet.
IdleDrain == [at |-> "none", force |-> FALSE, iterations |-> 0]

\* The agent before its first event.
IdleAgent(alphabet, budget, toolResults) ==
  [alphabet |-> alphabet, closedBlocks |-> <<>>, openBlock |-> <<>>,
   phase |-> "idle", blockBase |-> 0, partialBase |-> 0, textBase |-> 0,
   lastEvent |-> "none", nText |-> 0, nTool |-> 0, nCompaction |-> 0,
   nCompactionEnd |-> 0, nAgent |-> 0, nAgentEnd |-> 0, budget |-> budget,
   textSinceRetry |-> 0, releasedBy |-> "none", stray |-> FALSE,
   discarded |-> [texts |-> 0, metas |-> 0, ids |-> 0, buffer |-> 0],
   atEnd |-> [buffer |-> <<>>, marker |-> Undefined, blocks |-> 0, texts |-> 0],
   toolResults |-> toolResults, toolGiven |-> UndefinedResult,
   maxTool |-> MaxToolEvents, started |-> <<>>, ends |-> <<>>,
   emitAnswer |-> FALSE, drain |-> IdleDrain]

\* The same state with text from buffers streamed and not yet drained, and an
\* agent from agents.
InitSubscriberWith(paramSet, buffers, agents) ==
  /\ params \in paramSet
  /\ assistantTexts = <<>>
  /\ toolMetas = <<>>
  /\ toolMetaById = <<>>
  /\ blockBuffer \in buffers
  /\ deltaBuffer = blockBuffer
  /\ lastStreamedAssistant = Undefined
  /\ lastBlockReplyText = Undefined
  /\ assistantTextBaseline = 0
  /\ compactionInFlight = FALSE
  /\ pendingCompactionRetry = 0
  /\ compactionRetryPromise = FALSE
  /\ toolPending = IdlePending
  /\ partialReplies = <<>>
  /\ blockReplies = <<>>
  /\ suppressed = FALSE
  /\ toolPartials = <<>>
  /\ toolReplies = <<>>
  /\ toolEvent = NoToolEvent
  /\ waiters = [w \in Waiters |-> "none"]
  /\ env \in agents

InitSubscriber(paramSet, alphabet, budget, toolResults) ==
  InitSubscriberWith(paramSet, {<<>>}, {IdleAgent(alphabet, budget, toolResults)})

\* The tools of these runs return a line of text.
PlainResults == {ContentResult(<<TextItem(<<"o", "k">>)>>)}

\* Nothing has happened yet outside the subscriber and the coordinator.
InitHost ==
  /\ heartbeat = IdleHeartbeat
  /\ gate = IdleGate
  /\ hooks = IdleHooks
  /\ xpc = IdleXpc
  /\ setup = IdleSetup

InitAll(paramSet, alphabet, budget, toolResults) ==
  /\ InitSubscriber(paramSet, alphabet, budget, toolResults)
  /\ InitRuns(DefaultConfigs)
  /\ InitHost

InitWith(paramSet, alphabet, budget) == InitAll(paramSet, alphabet, budget, PlainResults)

\* The options: shouldEmitToolResult, onBlockReply, onPartialReply and
\* onToolResult say whether the function is supplied.
Options(finalTags, breaks, chunkings, verboseLevels, emitRules, toolCallbacks) ==
  [enforceFinalTag      : finalTags,
   blockReplyBreak      : breaks,
   blockReplyChunking   : chunkings,
   onBlockReply         : {TRUE},
   onPartialReply       : {TRUE},
   verboseLevel         : verboseLevels,
   shouldEmitToolResult : emitRules,
   onToolResult         : toolCallbacks]

ParamSet(finalTags, breaks, chunkings) ==
  Options(finalTags, breaks, chunkings, {"off"}, {FALSE}, {TRUE})

\* The deltas of the streams.
ThinkOpenTag == <<"<", "t", "h", "i", "n", "k", ">">>

ThinkCloseTag == <<"<", "/", "t", "h", "i", "n", "k", ">">>

FinalOpenTag == <<"<", "f", "i", "n", "a", "l", ">">>

FinalCloseTag == <<"<", "/", "f", "i", "n", "a", "l", ">">>

\* "<think>p</think>H ", "<final>Hi", "</final> b": the stream of the final-tag
\* scenario in three deltas; "<think>" and "x</think>" for unpaired tags.
TagDeltas ==
  {ThinkOpenTag \o <<"p">> \o ThinkCloseTag \o <<"H", " ">>,
   FinalOpenTag \o <<"H", "i">>,
   FinalCloseTag \o <<" ", "b">>,
   ThinkOpenTag,
   <<"x">> \o ThinkCloseTag}

\* Words, sentence ends, blanks and line breaks for the chunker.
ChunkDeltas ==
  {<<"a", "b">>, <<"c", ".", " ">>, <<" ">>, <<"\n", "\n">>, <<"d", "\n">>}

PlainDeltas == {<<"A">>, <<" ", "B">>}

ChunkingSet ==
  {Chunking(2, 4, preference) : preference \in {"paragraph", "newline", "sentence"}}

Breaks == {"text_end", "message_end"}

NextText == MessageUpdate \/ MessageEnd

NextCompaction ==
  \/ AgentStart
  \/ AutoCompactionStart
  \/ AutoCompactionEnd
  \/ AgentEnd
  \/ WaitForCompactionRetry
  \/ WaiterMicrotask

Next ==
  \/ MessageUpdate
  \/ MessageEnd
  \/ ToolExecutionStart
  \/ ToolExecutionUpdate
  \/ ToolExecutionEnd
  \/ DebounceTimer
  \/ AgentStart
  \/ AutoCompactionStart
  \/ AutoCompactionEnd
  \/ AgentEnd
  \/ WaitForCompactionRetry
  \/ WaiterMicrotask

\* No bound on the total beyond the bounds by kind.
Unbounded ==
  2 * (MaxTextEvents + MaxToolEvents + MaxCompactions + MaxAgentRuns) + MaxWaiters

Init ==
  InitWith(ParamSet({FALSE}, {"text_end"}, {NoChunking}), PlainDeltas, MaxEvents)

InitTags ==
  InitWith(ParamSet(BOOLEAN, Breaks, {NoChunking, Chunking(1, 40, "paragraph")}),
           TagDeltas, Unbounded)

InitChunk == InitWith(ParamSet({FALSE}, Breaks, ChunkingSet), ChunkDeltas, Unbounded)

InitCompaction ==
  InitWith(ParamSet({FALSE}, {"text_end"}, {NoChunking}), PlainDeltas, Unbounded)

\* Every event, in any order.
Spec == Init /\ [][Next]_vars

\* Assistant text streams with thinking and final tags.
SpecTags == InitTags /\ [][NextText]_vars

\* Assistant text streams through the chunker.
SpecChunk == InitChunk /\ [][NextText]_vars

\* Run and compaction events, and the consumers that wait for the retry.
SpecCompaction == InitCompaction /\ [][NextCompaction]_vars

(***************************************************************************)
(* What the claims speak of                                                *)
(***************************************************************************)

RECURSIVE Flatten(_)
Flatten(blocks) == IF blocks = <<>> THEN <<>> ELSE Head(blocks) \o Flatten(Tail(blocks))

\* The text the agent has streamed for the current (or the last ended) message.
StreamedText == Flatten(env.closedBlocks) \o env.openBlock

\* The texts passed to onBlockReply and to onPartialReply for that message.
BlocksOfMessage ==
  [i \in 1..(Len(blockReplies) - env.blockBase) |-> blockReplies[env.blockBase + i].text]

PartialsOfMessage ==
  [i \in 1..(Len(partialReplies) - env.partialBase) |->
     partialReplies[env.partialBase + i].text]

PublishedTexts ==
  {blockReplies[i].text : i \in 1..Len(blockReplies)}
  \cup {partialReplies[i].text : i \in 1..Len(partialReplies)}

Occurrences(text, pat) == {i \in 0..Len(text) : OccursAt(text, pat, i)}

ThinkingTags ==
  {ThinkOpenTag, ThinkCloseTag,
   <<"<", "t", "h", "i", "n", "k", "i", "n", "g", ">">>,
   <<"<", "/", "t", "h", "i", "n", "k", "i", "n", "g", ">">>}

HasThinkingTag(text) == \E tag \in ThinkingTags : Includes(text, tag)

HasFinalTag(text) == Includes(text, FinalOpenTag) \/ Includes(text, FinalCloseTag)

\* text without the <final> and </final> tags in it.
RECURSIVE WithoutFinalTags(_)
WithoutFinalTags(text) ==
  LET start == FinalStartAt(text)
      end   == FinalEndAt(text)
  IN  IF start # -1
        THEN WithoutFinalTags(
               CutFirst(text, start, TagEnd(text, start, "none", FinalWord, FALSE)))
      ELSE IF end # -1
        THEN WithoutFinalTags(
               CutFirst(text, end, TagEnd(text, end, "required", FinalWord, FALSE)))
      ELSE text

\* Exactly one <final>, exactly one </final>, in that order.
OneFinalRegion(text) ==
  /\ Cardinality(Occurrences(text, FinalOpenTag)) = 1
  /\ Cardinality(Occurrences(text, FinalCloseTag)) = 1
  /\ FinalStartAt(text) < FinalEndAt(text)

\* The text after the first <final>, up to the </final> that follows it if any.
FinalInterior(text) ==
  LET from  == FinalStartAt(text) + Len(FinalOpenTag)
      after == SliceFrom(text, from)
      to    == FinalEndAt(after)
  IN  IF FinalStartAt(text) = -1 THEN <<>>
      ELSE IF to = -1 THEN after ELSE Slice(after, 0, to)

(***************************************************************************)
(* Claims                                                                  *)
(***************************************************************************)

\* C1: no text passed to onPartialReply or onBlockReply contains a <think>,
\* </think>, <thinking> or </thinking> tag, with or without chunking and with or
\* without enforceFinalTag.
C1_NoThinkingTagPublished == \A text \in PublishedTexts : ~HasThinkingTag(text)

\* C2: with enforceFinalTag, when the streamed text of a message holds exactly one
\* well-formed <final>...</final> region, the blocks delivered for the message are
\* exactly the interior of the region, for every blockReplyBreak and with or
\* without chunking.
C2_BlockStreamIsFinalInterior ==
  (params.enforceFinalTag /\ env.lastEvent = "message_end"
     /\ OneFinalRegion(StreamedText))
  => LET interior == Trim(stripThinkingSegments(FinalInterior(StreamedText)))
     IN  BlocksOfMessage = IF interior = <<>> THEN <<>> ELSE <<interior>>

\* C3: with enforceFinalTag, no partial and no block holds text from outside the
\* <final> region of the stream: every published text lies within the interior of
\* the region, and nothing is published while the stream has no <final>.
C3_NothingOutsideFinalPublished ==
  (params.enforceFinalTag /\ env.phase = "message" /\ env.closedBlocks = <<>>)
  => \A i \in 1..Len(PartialsOfMessage) :
       Includes(FinalInterior(StreamedText), WithoutFinalTags(PartialsOfMessage[i]))

\* C4: with enforceFinalTag, when the text holds only one of <final> and </final>,
\* the lone tag appears in no published partial or block.
C4_LoneFinalTagNeverPublished ==
  (params.enforceFinalTag /\ env.phase = "message" /\ env.closedBlocks = <<>>
     /\ Includes(StreamedText, FinalOpenTag) # Includes(StreamedText, FinalCloseTag))
  => /\ \A i \in 1..Len(PartialsOfMessage) : ~HasFinalTag(PartialsOfMessage[i])
     /\ \A i \in 1..Len(BlocksOfMessage) : ~HasFinalTag(BlocksOfMessage[i])

\* C5: the promise of waitForCompactionRetry is resolved only in states where
\* pendingCompactionRetry = 0 and compactionInFlight = FALSE: no step lets a waiter
\* go on into a state with a compaction in flight or a retry pending.
C5_ResolvedOnlyWhenSettled ==
  [][\A w \in Waiters :
       (waiters[w] # waiters'[w] /\ waiters'[w] \in {"released", "passed"})
       => (pendingCompactionRetry' = 0 /\ ~compactionInFlight')]_vars

\* A waiter that held the shared promise through a retry was released by agent_end.
C5_Witness ==
  /\ \E w \in Waiters : waiters[w] = "released"
  /\ env.releasedBy = "agent_end"
  /\ env.lastEvent = "agent_end"
  /\ env.nCompactionEnd > 0
  /\ ~env.stray

\* C6: a consumer that waits through the compaction retries of a run is released
\* after the run's final agent_end, whatever the number of retries: once an
\* agent_end has released the waiters, no compaction of the run ends in a retry
\* (in runs whose compactions each start, then end).
C6_ReleasedAfterFinalAgentEnd ==
  [][(env.releasedBy = "agent_end" /\ ~env.stray)
       => ~(compactionInFlight /\ env'.lastEvent = "auto_compaction_retry"
              /\ env'.nCompactionEnd = env.nCompactionEnd + 1)]_vars

\* C7: auto_compaction_end with willRetry leaves assistantTexts, toolMetas, the
\* meta-by-id map, deltaBuffer and blockBuffer empty and the dedupe markers
\* cleared, and from then on assistantTexts hold only what the text events after
\* the retry produced.
C7_RetryResetsAccumulatedState ==
  /\ env.lastEvent = "auto_compaction_retry"
       => /\ assistantTexts = <<>>
          /\ toolMetas = <<>>
          /\ DOMAIN toolMetaById = {}
          /\ deltaBuffer = <<>>
          /\ blockBuffer = <<>>
          /\ lastStreamedAssistant = Undefined
          /\ lastBlockReplyText = Undefined
          /\ assistantTextBaseline = 0
  /\ env.nCompactionEnd > 0 /\ env.discarded.texts + env.discarded.buffer > 0
       => Len(assistantTexts) <= env.textSinceRetry

\* A retry that found texts and tool metas accumulated.
C7_Witness ==
  /\ env.lastEvent = "auto_compaction_retry"
  /\ env.discarded.texts > 0
  /\ env.discarded.metas > 0
  /\ ~env.stray

\* C8: with chunking, every block delivered to onBlockReply has a length between 1
\* and maxChars, and every block that is not the last block of its message has a
\* length of at least minChars.
C8_BlockLengthsWithinBounds ==
  blockChunking.set
  => /\ \A i \in 1..Len(blockReplies) :
          /\ Len(blockReplies[i].text) >= 1
          /\ Len(blockReplies[i].text) <= ChunkMax
     /\ env.lastEvent = "message_end"
          => \A i \in 1..(Len(BlocksOfMessage) - 1) :
               Len(BlocksOfMessage[i]) >= ChunkMin

\* The characters of text that are not white space.
Solid(text) == SelectSeq(text, LAMBDA c : ~IsSpace(c))

\* The texts of the blocks the last message_end delivered.
BlocksAtEnd ==
  [i \in 1..(Len(blockReplies) - env.atEnd.blocks) |->
     blockReplies[env.atEnd.blocks + i].text]

\* text of the last message_end.
TextAtEnd == FinalTextOf(extractAssistantText(Append(env.closedBlocks, env.openBlock)))

\* C9 (as stated): with chunking, the text that is in the block buffer when a
\* message_end arrives is always delivered: the blocks the message_end delivers
\* hold every character of it that is not white space.
C9_RemainingBufferAlwaysDelivered ==
  (blockChunking.set /\ env.lastEvent = "message_end" /\ env.atEnd.buffer # <<>>)
  => Solid(Flatten(BlocksAtEnd)) = Solid(env.atEnd.buffer)

\* C9 (amended): with chunking, the buffer is empty after a text_end under
\* blockReplyBreak = "text_end" and after every message_end; the buffer a
\* message_end finds is shorter than maxChars and is delivered, under either
\* blockReplyBreak, as one block, its trailing white space removed, unless that
\* block would be empty or equal to the chunk handled just before it, or the text
\* of the message is empty: then it is dropped.
C9_RemainingBufferDeliveredUnlessDuplicate ==
  blockChunking.set
  => /\ (env.lastEvent = "text_end" /\ params.blockReplyBreak = "text_end")
          => blockBuffer = <<>>
     /\ Len(blockBuffer) < ChunkMax
     /\ env.lastEvent = "message_end"
          => /\ blockBuffer = <<>>
             /\ env.atEnd.buffer # <<>>
                  => LET chunk == TrimEnd(env.atEnd.buffer)
                     IN  BlocksAtEnd =
                           IF chunk # <<>> /\ chunk # env.atEnd.marker
                                /\ TextAtEnd # <<>>
                             THEN <<chunk>> ELSE <<>>

\* A message_end under blockReplyBreak = "text_end" that found text in the buffer
\* and delivered it as the last block of the message.
C9_Witness ==
  /\ blockChunking.set
  /\ params.blockReplyBreak = "text_end"
  /\ env.lastEvent = "message_end"
  /\ Solid(env.atEnd.buffer) # <<>>
  /\ BlocksAtEnd = <<TrimEnd(env.atEnd.buffer)>>

\* C10 (as stated): no block is empty, and no two blocks delivered one after the
\* other have the same text.
C10_NoEmptyNoConsecutiveIdentical ==
  /\ \A i \in 1..Len(blockReplies) : blockReplies[i].text # <<>>
  /\ \A i \in 1..(Len(blockReplies) - 1) :
       blockReplies[i].text # blockReplies[i + 1].text

\* C10 (amended): no block is empty, and no two blocks delivered one after the
\* other for the same assistant message have the same text.
C10_NoEmptyNoIdenticalWithinMessage ==
  /\ \A i \in 1..Len(blockReplies) : blockReplies[i].text # <<>>
  /\ \A i \in 1..(Len(BlocksOfMessage) - 1) :
       BlocksOfMessage[i] # BlocksOfMessage[i + 1]

\* The stream of a message is one chunk twice over; the chunk was delivered once
\* and nothing is left in the buffer.
C10_Witness ==
  /\ blockChunking.set
  /\ env.phase = "message"
  /\ Len(BlocksOfMessage) = 1
  /\ Solid(StreamedText) = Solid(BlocksOfMessage[1]) \o Solid(BlocksOfMessage[1])
  /\ blockBuffer = <<>>

(***************************************************************************)
(* Break selection (C11)                                                   *)
(***************************************************************************)

\* The events of a stream that shows one choice of break.
MaxBreakEvents == 2

\* Buffers for pickBreakIndex, each streamed as one delta: a blank line, a line
\* break before a sentence end, a sentence end before a blank, no break at all,
\* a buffer below maxChars, one below minChars, a blank only, a blank line below
\* minChars, a sentence end at the end of the buffer and one at the end of the
\* window.
BreakDeltas ==
  {<<"a", "b", "\n", "\n", "c", "d">>,
   <<"a", "b", "\n", "c", "d", ".", " ", "e">>,
   <<"a", "b", ".", " ", "c", " ", "d">>,
   <<"a", "b", "c", "d", "e", "f", "g", "h">>,
   <<"a", "b", "c">>,
   <<"a">>,
   <<"a", "b", " ", "c">>,
   <<"a", "\n", "\n", "b", "c", "d">>,
   <<"a", "b", "c", ".">>,
   <<"a", "b", "c", "d", "e", ".", "f", "g">>}

BreakChunkingSet ==
  {Chunking(2, 6, preference) : preference \in {"paragraph", "newline", "sentence"}}

InitBreak ==
  InitWith(ParamSet({FALSE}, Breaks, BreakChunkingSet), BreakDeltas, MaxBreakEvents)

\* One or two text events of a stream through the chunker.
SpecBreak == InitBreak /\ [][NextText]_vars

\* The positions each rule allows in buffer: 0-based break indices in the window
\* (the first maxChars characters), none below minChars.
BreakWindow(buffer) == Slice(buffer, 0, Min(ChunkMax, Len(buffer)))

BreakPositions(rule, buffer) ==
  LET window == BreakWindow(buffer)
  IN  CASE rule = "paragraph" ->
             {i \in ChunkMin..(Len(window) - 2) :
                window[i + 1] = "\n" /\ window[i + 2] = "\n"}
        [] rule = "newline" ->
             {i \in ChunkMin..(Len(window) - 1) : window[i + 1] = "\n"}
        [] rule = "sentence" ->
             {i + 1 : i \in {k \in ChunkMin..(Len(window) - 1) :
                               /\ window[k + 1] \in {".", "!", "?"}
                               /\ (k + 1 = Len(window) \/ IsSpace(window[k + 2]))}}
        [] rule = "whitespace" ->
             {i \in ChunkMin..(Len(window) - 1) : IsSpace(window[i + 1])}

\* The last position of the first rule of rules that allows one; without one, a
\* hard split at maxChars once the buffer is that long.
RECURSIVE BreakByRules(_, _)
BreakByRules(rules, buffer) ==
  IF Len(buffer) < ChunkMin THEN -1
  ELSE IF rules = <<>> THEN IF Len(buffer) >= ChunkMax THEN ChunkMax ELSE -1
  ELSE IF BreakPositions(Head(rules), buffer) # {}
    THEN SetMax(BreakPositions(Head(rules), buffer))
  ELSE BreakByRules(Tail(rules), buffer)

\* The rules from the preference on, in the order paragraph, newline, sentence,
\* whitespace.
RulesFrom(preference) ==
  CASE preference = "paragraph" -> <<"paragraph", "newline", "sentence", "whitespace">>
    [] preference = "newline" -> <<"newline", "sentence", "whitespace">>
    [] preference = "sentence" -> <<"sentence", "whitespace">>

\* The rules the source tries: under "newline" the sentence rule is left out.
RulesTried(preference) ==
  IF preference = "newline" THEN <<"newline", "whitespace">>
  ELSE RulesFrom(preference)

\* C11 (as stated): for each preference the break is chosen by the rules from the
\* preference on, in the order paragraph, newline, sentence, whitespace, hard
\* split, each later rule used whenever the earlier ones allow no position; stated
\* of the text streamed so far for the open block, as a buffer.
C11_BreakByRulesFromPreference ==
  env.phase = "message"
  => pickBreakIndex(env.openBlock)
       = BreakByRules(RulesFrom(blockChunking.breakPreference), env.openBlock)

\* C11 (amended): as above, except that under the preference "newline" the
\* sentence rule is not tried: after the line break comes the last white space.
C11_BreakByRulesTried ==
  env.phase = "message"
  => pickBreakIndex(env.openBlock)
       = BreakByRules(RulesTried(blockChunking.breakPreference), env.openBlock)

\* Under "newline", a delta with a sentence end and a later blank but no line break
\* was cut at the blank: the first block holds the sentence and the word after it.
C11_Witness ==
  /\ blockChunking.breakPreference = "newline"
  /\ env.lastEvent = "text_delta"
  /\ env.nText = 1
  /\ BreakPositions("newline", env.openBlock) = {}
  /\ BreakPositions("sentence", env.openBlock) # {}
  /\ Len(blockReplies) = 1
  /\ Len(blockReplies[1].text) > SetMax(BreakPositions("sentence", env.openBlock))

(***************************************************************************)
(* The three-paragraph stream (C12)                                        *)
(***************************************************************************)

ParagraphOne == <<"L", "i", "n", "e", " ", "o", "n", "e", " ", "i", "s", " ", "h", "e", "r", "e", ".">>

ParagraphTwo == <<"L", "i", "n", "e", " ", "t", "w", "o", " ", "f", "o", "l", "l", "o", "w", "s", " ", "h", "e", "r", "e", ".">>

ParagraphThree == <<"L", "i", "n", "e", " ", "t", "h", "r", "e", "e", ".">>

BlankLine == <<"\n", "\n">>

\* "Line one is here.\n\nLine two follows here.\n\nLine three."
ParagraphText ==
  ParagraphOne \o BlankLine \o ParagraphTwo \o BlankLine \o ParagraphThree

\* The text as one delta, cut after each blank line, cut after the second
\* paragraph, and cut inside the second paragraph.
ParagraphDeltas ==
  {ParagraphText,
   ParagraphOne \o BlankLine,
   ParagraphTwo \o BlankLine,
   ParagraphThree,
   ParagraphOne \o BlankLine \o ParagraphTwo \o BlankLine,
   ParagraphOne \o BlankLine \o <<"L", "i", "n", "e", " ", "t", "w", "o">>,
   <<" ", "f", "o", "l", "l", "o", "w", "s", " ", "h", "e", "r", "e", ".">> \o BlankLine \o ParagraphThree}

InitParagraph ==
  InitWith(ParamSet({FALSE}, Breaks, {Chunking(20, 40, "paragraph")}),
           ParagraphDeltas, Unbounded)

\* Streams of pieces of the three-paragraph text through the chunker.
SpecParagraph == InitParagraph /\ [][NextText]_vars

\* A message that streamed exactly the three-paragraph text in one text block and
\* has ended.
ParagraphTextEnded ==
  /\ env.lastEvent = "message_end"
  /\ env.closedBlocks = <<>>
  /\ StreamedText = ParagraphText

\* C12 (as stated): with minChars 20, maxChars 40 and preference paragraph, the
\* three-paragraph text is delivered as exactly three blocks, one per paragraph.
C12_OneBlockPerParagraph ==
  ParagraphTextEnded
  => BlocksOfMessage = <<ParagraphOne, ParagraphTwo, ParagraphThree>>

\* C12 (amended): the first paragraph has 17 characters, fewer than minChars, so
\* no block ends at the first blank line: the first block holds the first
\* paragraph, the blank line and at least the first word of the second one, and
\* streamed as one delta the text is delivered as the two blocks
\* "Line one is here.\n\nLine two follows" and "here.\n\nLine three.".
C12_FirstBlockRunsPastFirstParagraph ==
  ParagraphTextEnded
  => /\ Len(BlocksOfMessage) >= 1
     /\ StartsWith(BlocksOfMessage[1], ParagraphOne \o BlankLine \o <<"L", "i", "n", "e">>)
     /\ env.nText = 2
          => BlocksOfMessage =
               <<ParagraphOne \o BlankLine \o <<"L", "i", "n", "e", " ", "t", "w", "o", " ", "f", "o", "l", "l", "o", "w", "s">>,
                 <<"h", "e", "r", "e", ".">> \o BlankLine \o ParagraphThree>>

\* The text streamed as one delta, the message ended.
C12_Witness ==
  /\ ParagraphTextEnded
  /\ env.nText = 2
  /\ Len(BlocksOfMessage) = 2

(***************************************************************************)
(* Deltas that cut a tag in two (C13)                                      *)
(***************************************************************************)

\* "x", "<thi", "nk>p</think>y", "<fin", "al>Hi</final>"
SplitDeltas ==
  {<<"x">>,
   <<"<", "t", "h", "i">>,
   <<"n", "k", ">", "p", "<", "/", "t", "h", "i", "n", "k", ">", "y">>,
   <<"<", "f", "i", "n">>,
   <<"a", "l", ">", "H", "i", "<", "/", "f", "i", "n", "a", "l", ">">>}

InitSplit == InitWith(ParamSet(BOOLEAN, Breaks, {NoChunking}), SplitDeltas, Unbounded)

\* Assistant text streams whose deltas cut the tags.
SpecSplit == InitSplit /\ [][NextText]_vars

\* C13: within one assistant text block, each text passed to onPartialReply has the
\* text passed before it as a prefix, however the text is split into deltas.
C13_PartialsGrow ==
  (env.phase = "message" /\ env.closedBlocks = <<>>)
  => \A i \in 1..(Len(PartialsOfMessage) - 1) :
       StartsWith(PartialsOfMessage[i + 1], PartialsOfMessage[i])

(***************************************************************************)
(* Tool results on the tool stream                                         *)
(***************************************************************************)

Chars(n) == [i \in 1..n |-> "x"]

\* "QUJD", three bytes in base64.
Base64Data == <<"Q", "U", "J", "D">>

\* What a tool may give: nothing, an object without a content array, a text
\* one character over the limit beside an image, a text at the limit, a text
\* under it, and an image without data beside a text item without text.
ToolResults ==
  {UndefinedResult,
   BareResult,
   ContentResult(<<TextItem(Chars(TOOL_RESULT_MAX_CHARS + 1)), ImageItem(Base64Data)>>),
   ContentResult(<<TextItem(Chars(TOOL_RESULT_MAX_CHARS))>>),
   ContentResult(<<ImageItem(Base64Data), TextItem(<<"o", "k">>)>>),
   ContentResult(<<ImageItem(<<>>), TextItem(Undefined)>>)}

InitTool ==
  InitAll(ParamSet({FALSE}, {"text_end"}, {NoChunking}), PlainDeltas, Unbounded,
          ToolResults)

NextTool ==
  \/ ToolExecutionStart
  \/ ToolExecutionUpdate
  \/ ToolExecutionEnd
  \/ DebounceTimer

\* Tool events only.
SpecTool == InitTool /\ [][NextTool]_vars

\* The item as the claim wants it emitted.
ItemAsStated(given) ==
  IF given.type = "text" /\ given.text # Undefined
    THEN [given EXCEPT !.text =
            IF Len(given.text) > TOOL_RESULT_MAX_CHARS
              THEN [i \in 1..(TOOL_RESULT_MAX_CHARS + Len(TruncatedSuffix)) |->
                      IF i <= TOOL_RESULT_MAX_CHARS THEN given.text[i]
                      ELSE TruncatedSuffix[i - TOOL_RESULT_MAX_CHARS]]
              ELSE given.text]
  ELSE IF given.type = "image"
    THEN [type |-> "image", text |-> given.text, data |-> Undefined,
          bytes |-> IF given.data \in {Undefined, <<>>} THEN NoBytes ELSE Len(given.data),
          omitted |-> TRUE]
  ELSE given

Configs ==
  [queue : {QueueConfig(mode, 2, drop) : mode \in QueueModes, drop \in DropRules},
   maxConcurrent : {1, 2}]

InitCoordinator ==
  /\ InitSubscriber(ParamSet({FALSE}, {"text_end"}, {NoChunking}), PlainDeltas,
                    Unbounded, PlainResults)
  /\ InitRuns(Configs)
  /\ InitHost

NextCoordinator ==
  \/ \E key \in SessionKeys : Arrive(key)
  \/ StartRun
  \/ \E key \in SessionKeys : Stream(key)
  \/ \E key \in SessionKeys : Turn(key)
  \/ \E key \in SessionKeys : RunEnd(key)
  \/ \E key \in SessionKeys : Cancel(key)
  \/ \E key \in SessionKeys : Cancelled(key)

\* Inputs arrive at two sessions under every queue mode and drop rule.
SpecCoordinator == InitCoordinator /\ [][NextCoordinator]_vars

\* The runs of the session: the ones that hold a place and the ones that wait.
RunsOf(key) ==
  Cardinality({i \in DOMAIN coordinator.running : coordinator.running[i] = key})
    + Cardinality({i \in DOMAIN runQueue : runQueue[i] = key})

\* C15: at every moment every session key has at most one active run, and it
\* is the session's activeRun; a session without activeRun has none.
C15_OneActiveRunPerSession ==
  \A key \in SessionKeys :
    /\ RunsOf(key) <= 1
    /\ RunsOf(key) = 1 <=> sessions[key].activeRun # NoRun

\* The runs of two sessions proceed in parallel while an input waits for one
\* of them to end.
C15_Witness ==
  /\ \A key \in SessionKeys : sessions[key].activeRun.state = "streaming"
  /\ \E key \in SessionKeys : sessions[key].pendingInputs # <<>>

\* C16: the runs that hold a place are never more than maxConcurrent; a run
\* starts only from the head of the queue of submissions, and the queue only
\* grows at its tail.
C16_CapAndFifo ==
  /\ [](Len(coordinator.running) <= coordinator.maxConcurrent)
  /\ [][/\ Len(coordinator.running') > Len(coordinator.running) =>
             /\ runQueue # <<>>
             /\ coordinator.running' = Append(coordinator.running, Head(runQueue))
             /\ runQueue' = Tail(runQueue)
        /\ Len(coordinator.running') <= Len(coordinator.running) =>
             \/ runQueue' = runQueue
             \/ \E key \in SessionKeys : runQueue' = Append(runQueue, key)]_vars

\* The one place is taken while the run that follows an ended run waits at
\* the head of the queue.
C16_Witness ==
  /\ coordinator.maxConcurrent = 1
  /\ Len(coordinator.running) = 1
  /\ runQueue # <<>>
  /\ \E key \in SessionKeys :
       sessions[key].lastRun.state = "ending" /\ Head(runQueue) = key

Reflected(id) == \E key \in SessionKeys : id \in ItemIds(sessions[key].history)

\* The input waits with a session that has a run: among its pendingInputs, or
\* as the input of its run that waits for a place.
HeldForRun(id) ==
  \E key \in SessionKeys :
    /\ sessions[key].activeRun # NoRun
    /\ \/ id \in EventIds(sessions[key].pendingInputs)
       \/ /\ sessions[key].activeRun.state = "starting"
          /\ id \in ItemIds(sessions[key].activeRun.input)

\* C17: under every queue mode, every input that passed the gate was dropped
\* by the drop rule, or is in its session's history, or waits for the run in
\* progress to take it or for the run that follows to start.
C17_NoInputLostSilently ==
  \A id \in 1..coordinator.nInputs :
    id \in coordinator.dropped \/ Reflected(id) \/ HeldForRun(id)

\* Every input has arrived: one was dropped, one waits, and one that arrived
\* while its session's run was active is in the history.
C17_Witness ==
  /\ coordinator.nInputs = MaxInputs
  /\ coordinator.dropped # {}
  /\ \E id \in 1..coordinator.nInputs : HeldForRun(id) /\ ~Reflected(id)
  /\ \E key \in SessionKeys : Cardinality(ItemIds(sessions[key].history)) >= 2

\* C18: a session with no active run has no pending inputs.
C18_NoPendingWithoutRun ==
  \A key \in SessionKeys :
    sessions[key].activeRun = NoRun => sessions[key].pendingInputs = <<>>

\* A session is free after a run that took an input queued while it ran.
C18_Witness ==
  \E key \in SessionKeys :
    /\ sessions[key].activeRun = NoRun
    /\ sessions[key].lastRun.state = "ending"
    /\ Cardinality(ItemIds(sessions[key].history)) >= 2

\* The session's first run took input 1 and has ended, inputs 2, 3 and 4
\* arrived while it had that run, and the run that follows waits to start.
ThreeWhileBusy(key) ==
  /\ coordinator.queue = QueueConfig("collect", 2, "summarize")
  /\ coordinator.nInputs = 4
  /\ \A other \in SessionKeys \ {key} :
       sessions[other].activeRun = NoRun /\ sessions[other].history = <<>>
  /\ sessions[key].history = <<Item(1)>>
  /\ sessions[key].activeRun.state = "starting"
  /\ sessions[key].pendingInputs = <<>>

\* C19: with mode collect, cap 2 and drop summarize, three inputs that arrive
\* while a run is active make the input of the run that follows a single
\* synthetic item that stands for three messages.
C19_ThreeInputsOneSummary ==
  \A key \in SessionKeys :
    ThreeWhileBusy(key) => sessions[key].activeRun.input = <<Summary(3)>>

C19_Witness ==
  \E key \in SessionKeys :
    ThreeWhileBusy(key) /\ sessions[key].activeRun.input = <<Summary(3)>>

\* C20: a cancelled run is marked ending, what it had buffered went out as
\* the final block, and it holds neither the session nor a place: the session
\* is free or has the run that follows, queued to start.
C20_CancelledRunReleasesSession ==
  \A key \in SessionKeys :
    sessions[key].lastRun.cancelled =>
      /\ sessions[key].lastRun.state = "ending"
      /\ sessions[key].lastRun.buffered => sessions[key].lastRun.finalBlock
      /\ \A i \in DOMAIN coordinator.running : coordinator.running[i] # key
      /\ \/ sessions[key].activeRun = NoRun /\ sessions[key].pendingInputs = <<>>
         \/ /\ sessions[key].activeRun.state = "starting"
            /\ \E i \in DOMAIN runQueue : runQueue[i] = key

\* A run with buffered text was cancelled and the run that follows can start.
C20_Witness ==
  \E key \in SessionKeys :
    /\ sessions[key].lastRun.cancelled
    /\ sessions[key].lastRun.buffered
    /\ sessions[key].lastRun.finalBlock
    /\ sessions[key].activeRun.state = "starting"
    /\ Head(runQueue) = key
    /\ Len(coordinator.running) < coordinator.maxConcurrent

(***************************************************************************)
(* Heartbeat ticks                                                         *)
(***************************************************************************)

InitHeartbeat ==
  /\ InitSubscriber(ParamSet({FALSE}, {"text_end"}, {NoChunking}), PlainDeltas,
                    Unbounded, PlainResults)
  /\ InitRuns(DefaultConfigs)
  /\ \E degraded \in BOOLEAN : heartbeat = [IdleHeartbeat EXCEPT !.degraded = degraded]
  /\ gate = IdleGate
  /\ hooks = IdleHooks
  /\ xpc = IdleXpc
  /\ setup = IdleSetup

NextHeartbeat ==
  \/ \E key \in SessionKeys : HeartbeatTick(key)
  \/ ControlChannel
  \/ \E key \in SessionKeys : Arrive(key)
  \/ StartRun
  \/ \E key \in SessionKeys : RunEnd(key)

\* The jobs of two sessions tick while inputs arrive and runs start and end.
SpecHeartbeat == InitHeartbeat /\ [][NextHeartbeat]_vars

\* The step is a tick of the job of the session.
TickOf(key) ==
  /\ heartbeat'.nTicks = heartbeat.nTicks + 1
  /\ heartbeat'.tickOf = key

\* C21: a heartbeat tick for a session that has an active run submits nothing:
\* it records the status skipped and sets the next fire; a tick records the
\* status sent, and submits its run, only for a session without a run while the
\* control channel is not degraded.
C21_BusySessionSkipsHeartbeat ==
  [][\A key \in SessionKeys :
       TickOf(key) =>
         /\ sessions[key].activeRun # NoRun =>
               /\ heartbeat'.jobs[key].last.status = "skipped"
               /\ heartbeat'.jobs[key].nextFire > heartbeat'.now
               /\ UNCHANGED coordVars
         /\ (heartbeat'.jobs[key].last.status = "sent" \/ coordVars' # coordVars) =>
               /\ sessions[key].activeRun = NoRun
               /\ ~heartbeat.degraded
               /\ heartbeat'.jobs[key].last.status = "sent"
               /\ sessions'[key].activeRun.state = "starting"]_vars

\* A tick was skipped for a session with a run, and a tick of the other session
\* submitted a run.
C21_Witness ==
  \E key, other \in SessionKeys :
    /\ heartbeat.jobs[key].last.status = "skipped"
    /\ sessions[key].activeRun # NoRun
    /\ heartbeat.jobs[other].last.status = "sent"
    /\ sessions[other].history # <<>>

(***************************************************************************)
(* Mentions in group chats                                                 *)
(***************************************************************************)

GateConfigs ==
  {GateConfig(enabled, allowFrom, groups, mentionPatterns) :
     enabled \in BOOLEAN,
     allowFrom \in SUBSET {OwnNumber, FriendNumber},
     groups \in UNION {[names -> MentionRules] : names \in SUBSET {Wildcard, "g1"}},
     mentionPatterns \in {{}, {<<"@", "c", "l", "a", "w", "d">>}}}

Bodies ==
  { <<>>,
    <<"h", "i">>,
    <<"@", "c", "l", "a", "w", "d", " ", "h", "i">>,
    <<"h", "i", " ", "@", "C", "l", "a", "w", "D">>,
    <<"@", "c", "l", "a", "w">> }

InboundEvents ==
  [wellFormed : BOOLEAN, chatType : {"direct", "group"},
   from : {OwnNumber, FriendNumber, StrangerNumber}, group : GroupIds,
   body : Bodies, mentionsBot : BOOLEAN]

InitGate ==
  /\ InitSubscriber(ParamSet({FALSE}, {"text_end"}, {NoChunking}), PlainDeltas,
                    Unbounded, PlainResults)
  /\ InitRuns(DefaultConfigs)
  /\ \E config \in GateConfigs : gate = [IdleGate EXCEPT !.config = config]
  /\ heartbeat = IdleHeartbeat
  /\ hooks = IdleHooks
  /\ xpc = IdleXpc
  /\ setup = IdleSetup

NextGate == Inbound(InboundEvents)

\* Every event of InboundEvents is decided under every configuration.
SpecGate == InitGate /\ [][NextGate]_vars

\* The gate decided a well-formed group message of a selected group that
\* requires a mention, the surface being enabled in self-chat mode.
SelfChatGroupCase ==
  /\ gate.decision # NoDecision
  /\ gate.event.wellFormed
  /\ gate.config.enabled
  /\ gate.event.chatType = "group"
  /\ gate.config.self \in gate.config.allowFrom \/ gate.config.allowFrom = {}
  /\ GroupSelected(gate.config, gate.event.group)
  /\ RequireMention(gate.config, gate.event.group)

\* The body holds one of the configured patterns, letters compared in lower case.
BodyHit ==
  \E pattern \in gate.config.mentionPatterns :
    \E i \in 0..Len(gate.event.body) :
      /\ i + Len(pattern) <= Len(gate.event.body)
      /\ \A k \in 1..Len(pattern) : Lower(gate.event.body[i + k]) = Lower(pattern[k])

\* C22: in self-chat mode a group message that requires a mention is accepted
\* exactly when its body matches a configured mention pattern: the metadata
\* mention alone is rejected, and a pattern hit is accepted whoever sent it.
C22_SelfChatMentionByTextOnly ==
  SelfChatGroupCase =>
    /\ gate.decision.accept <=> BodyHit
    /\ gate.event.mentionsBot /\ ~BodyHit => gate.decision = Reject("mention")
    /\ BodyHit /\ gate.event.from \notin EffectiveAllowFrom(gate.config)
         => gate.decision = Accept(gate.event.group)

\* Under the configuration documented for text triggers, a group message of a
\* sender outside the allowlist with the native mention and no pattern in its
\* body was rejected.
C22_Witness ==
  /\ SelfChatGroupCase
  /\ gate.config = TextTriggerConfig
  /\ gate.event.from = StrangerNumber
  /\ gate.event.mentionsBot
  /\ gate.event.body = <<"h", "i">>
  /\ gate.decision = Reject("mention")

(***************************************************************************)
(* Webhook requests and their token                                        *)
(***************************************************************************)

\* Requests to /hooks/wake, /hooks/agent and /hooks/gmail with a token in at
\* most two places; the header x-gateway-token holds the hook token or is
\* absent, a wake has a mode and an agent request a session key.
HookRequests ==
  {request \in
     [path : {"wake", "agent", "gmail"},
      tokens : {t \in [Carriers -> {NoToken, HookToken, WrongToken}] :
                  /\ t["x-gateway-token"] # WrongToken
                  /\ Cardinality({carrier \in Carriers : t[carrier] # NoToken}) <= 2},
      body : {"ok", "large", "malformed"},
      mode : {"now", "next-heartbeat"},
      sessionKey : SessionKeys] :
     /\ request.path # "wake" => request.mode = "now"
     /\ request.path # "agent" => request.sessionKey = MainKey}

InitHooks ==
  /\ InitSubscriber(ParamSet({FALSE}, {"text_end"}, {NoChunking}), PlainDeltas,
                    Unbounded, PlainResults)
  /\ InitRuns(DefaultConfigs)
  /\ hooks = IdleHooks
  /\ heartbeat = IdleHeartbeat
  /\ gate = IdleGate
  /\ xpc = IdleXpc
  /\ setup = IdleSetup

NextHooks ==
  \/ HookRequest(HookRequests)
  \/ StartRun
  \/ \E key \in SessionKeys : RunEnd(key)

\* Requests arrive with every combination of tokens while the runs they
\* submitted start and end.
SpecHooks == InitHooks /\ [][NextHooks]_vars

\* The step answers a request.
Answered == hooks'.nRequests = hooks.nRequests + 1

\* No session was created or touched, no run and no wake submitted.
NoSessionTouch ==
  /\ UNCHANGED <<sessions, runQueue, coordinator, heartbeat>>
  /\ hooks'.wakes = hooks.wakes

\* The request carries the hook token in the carrier and no token elsewhere.
TokenOnlyIn(request, carrier) ==
  /\ request.tokens[carrier] = HookToken
  /\ \A other \in Carriers \ {carrier} : request.tokens[other] = NoToken

\* A request without the hook token in one of the carriers is answered 401 and
\* touches nothing; the token in any one of them is not answered 401.
TokenGated(carriers) ==
  Answered =>
    /\ (\A carrier \in carriers : hooks'.request.tokens[carrier] # HookToken) =>
          hooks'.status = 401 /\ NoSessionTouch
    /\ \A carrier \in carriers :
          TokenOnlyIn(hooks'.request, carrier) => hooks'.status # 401

\* C23 as stated: a webhook request with a missing or wrong token is answered
\* 401 and changes no session state, and the token is accepted from the bearer
\* header, the gateway token header (X-Gateway-Token) or the token query
\* parameter.
C23_TokenFromGatewayHeader ==
  [][TokenGated({"bearer", "x-gateway-token", "query"})]_vars

\* C23, amended: the same, the header being x-clawdis-token; a token in
\* X-Gateway-Token is not read.
C23_TokenFromDocumentedHeader ==
  [][/\ TokenGated({"bearer", "x-clawdis-token", "query"})
     /\ Answered /\ TokenOnlyIn(hooks'.request, "x-gateway-token") =>
          hooks'.status = 401 /\ NoSessionTouch]_vars

\* A request to /hooks/agent with a wrong bearer token and a wrong query token
\* was answered 401 after an authorised request had submitted a run, and the
\* other session has seen nothing.
C23_Witness ==
  /\ hooks.nRequests = 2
  /\ hooks.status = 401
  /\ hooks.request.path = "agent"
  /\ hooks.request.body = "ok"
  /\ hooks.request.sessionKey = "s2"
  /\ hooks.request.tokens["bearer"] = WrongToken
  /\ hooks.request.tokens["query"] = WrongToken
  /\ coordinator.nInputs = 1
  /\ sessions["s2"].activeRun = NoRun
  /\ sessions["s2"].history = <<>>

(***************************************************************************)
(* Clients of the XPC service                                              *)
(***************************************************************************)

\* Processes of the same user and of another one, gone or alive, signed by the
\* allowed team, by another team, without a team, or not readable.
Clients ==
  [processIdentifier : {0, 42},
   uid : {OwnUid, 502, NoUid},
   signing : {"ok", "error"},
   teamID : {"Y5PE65HELJ", "ABCDE12345", NoTeamID}]

InitXpc ==
  /\ InitSubscriber(ParamSet({FALSE}, {"text_end"}, {NoChunking}), PlainDeltas,
                    Unbounded, PlainResults)
  /\ InitRuns(DefaultConfigs)
  /\ xpc = IdleXpc
  /\ heartbeat = IdleHeartbeat
  /\ gate = IdleGate
  /\ hooks = IdleHooks
  /\ setup = IdleSetup

NextXpc ==
  \/ applicationDidFinishLaunching
  \/ shouldAcceptNewConnection(Clients)

\* The app starts and clients of every kind connect.
SpecXpc == InitXpc /\ [][NextXpc]_vars

\* The client's code is signed with a team identifier of the set.
SignedByAllowedTeam(client) ==
  client.signing = "ok" /\ client.teamID \in allowedTeamIDs

\* C24: the XPC listener accepts a new connection only when the client is
\* signed with a team ID in allowedTeamIDs; every connection of a client whose
\* team ID does not match is invalidated and refused.
C24_OnlyAllowedTeamAccepted ==
  \A i \in DOMAIN xpc.connections :
    /\ xpc.connections[i].accepted => SignedByAllowedTeam(xpc.connections[i].client)
    /\ ~SignedByAllowedTeam(xpc.connections[i].client) =>
          /\ ~xpc.connections[i].accepted
          /\ xpc.connections[i].state = "invalidated"

(***************************************************************************)
(* Runs of setup.sh                                                        *)
(***************************************************************************)

\* setup.sh with --test, --uninstall, --update or none of them, with and
\* without -y, for each user, at a terminal or not; without root only the
\* install.
Invocations ==
  {inv \in [args : [mode : {"install", "test", "uninstall", "update"},
                    yes : BOOLEAN, user : TargetUsers],
            stdin : {"tty", "eof"},
            root : BOOLEAN] :
     ~inv.root => inv.args.mode = "install"}

Answers ==
  { <<>>, <<"n">>, <<"N">>, <<"y">>, <<"y", "e", "s">>,
    <<"D", "E", "L", "E", "T", "E">> }

InitSetup ==
  /\ InitSubscriber(ParamSet({FALSE}, {"text_end"}, {NoChunking}), PlainDeltas,
                    Unbounded, PlainResults)
  /\ InitRuns(DefaultConfigs)
  /\ setup = IdleSetup
  /\ heartbeat = IdleHeartbeat
  /\ gate = IdleGate
  /\ hooks = IdleHooks
  /\ xpc = IdleXpc

NextSetup ==
  \/ Start(Invocations)
  \/ OperatorAnswers(Answers)

\* setup.sh is run several times on one host in every mode.
SpecSetup == InitSetup /\ [][NextSetup]_vars

\* The artefacts of an install that are named for the user: containers,
\* volumes, image, the three directories, the aliases, the sudoers file and
\* the test script.
CreatedFor(user) ==
  Of(DirArtefacts \cup {"aliases", "sudoers", "test.sh"}, user)
    \cup Of(DockerArtefacts, "host")

Said(text) == \E i \in DOMAIN setup.out : setup.out[i].text = text

\* C25: setup.sh --uninstall after a full install removes every artefact the
\* install created for the target user: containers, volumes, image, the
\* source, containers and config directories, the shell aliases, the sudoers
\* drop-in file and the installed test script.
C25_UninstallRemovesEverything ==
  /\ setup.pc = "exited"
  /\ setup.args.mode = "uninstall"
  /\ Said("Uninstall complete")
  /\ CreatedFor(setup.args.user) \subseteq setup.before
  => setup.host \cap CreatedFor(setup.args.user) = {}

\* C26: with -y/--yes setup.sh reads no confirmation from the operator in any
\* mode and for any target user.
C26_YesNeverPrompts ==
  setup.args.yes => setup.reads = <<>> /\ setup.prompts = <<>>

\* C27: setup.sh --test evaluates all nine checks, prints PASS or FAIL for
\* each and then the totals, and exits with status 0 exactly when no check
\* failed.
C27_TestRunsAllChecks ==
  setup.pc = "exited" /\ setup.args.mode = "test" =>
    /\ Len(setup.out) = Len(Checks) + 2
    /\ \A i \in DOMAIN Checks :
          /\ setup.out[i].text = Checks[i].name
          /\ setup.out[i].kind =
                IF CheckHolds(i, setup.host, setup.args.user) THEN "PASS" ELSE "FAIL"
    /\ setup.out[Len(Checks) + 2].kind = "Results"
    /\ setup.out[Len(Checks) + 2].passed + setup.out[Len(Checks) + 2].failed
         = Len(Checks)
    /\ setup.status = 0 <=>
          \A i \in DOMAIN Checks : CheckHolds(i, setup.host, setup.args.user)

(***************************************************************************)
(* One delivery of a streamed message without chunking                     *)
(***************************************************************************)

\* The message that has just ended was streamed as one block of text and
\* closed by text_end before message_end.
StreamedAndClosed ==
  /\ env.phase = "ended"
  /\ Len(env.closedBlocks) = 1
  /\ env.closedBlocks[1] # <<>>
  /\ env.openBlock = <<>>

\* The message that has just ended was streamed and no text_end came.
StreamedNotClosed ==
  /\ env.phase = "ended"
  /\ env.closedBlocks = <<>>
  /\ env.openBlock # <<>>

\* The streamed text leaves something to show once it is cleaned and trimmed.
Visible(block) ==
  splitMediaFromOutput(NextOf(block)).text # <<>>
    \/ splitMediaFromOutput(NextOf(block)).mediaUrls > 0

\* The calls of onBlockReply the message made before its message_end, and at it.
RepliesBeforeEnd == env.atEnd.blocks - env.blockBase
RepliesAtEnd == Len(blockReplies) - env.atEnd.blocks

\* C28: without chunking a message that is streamed and then closed
\* (text_delta*, text_end, message_end) reaches onBlockReply exactly once under
\* either blockReplyBreak: at text_end under "text_end" and not again at
\* message_end, at message_end under "message_end"; when no text_end arrives
\* under "text_end" the text is delivered once at message_end.  The message is
\* one that leaves text to show: of a message that is blank once its thinking
\* segments are stripped nothing is delivered.
C28_StreamedMessageDeliveredOnce ==
  ~params.blockReplyChunking.set /\ params.onBlockReply =>
    /\ StreamedAndClosed /\ Visible(env.closedBlocks[1]) =>
          IF params.blockReplyBreak = "text_end"
            THEN RepliesBeforeEnd = 1 /\ RepliesAtEnd = 0
            ELSE RepliesBeforeEnd = 0 /\ RepliesAtEnd = 1
    /\ StreamedNotClosed /\ Visible(env.openBlock) =>
          RepliesBeforeEnd = 0 /\ RepliesAtEnd = 1

\* Under "text_end" one message was delivered at its text_end and the next
\* one, which no text_end closed, at its message_end.
C28_Witness ==
  /\ ~params.blockReplyChunking.set
  /\ params.blockReplyBreak = "text_end"
  /\ StreamedNotClosed
  /\ Visible(env.openBlock)
  /\ env.blockBase = 1
  /\ Len(blockReplies) = 2

(***************************************************************************)
(* The compaction counters and the shared promise                          *)
(***************************************************************************)

\* A compaction is in flight or a retry is pending.
Outstanding == compactionInFlight \/ pendingCompactionRetry > 0

\* C30: after any sequence of agent events and waitForCompactionRetry calls,
\* pendingCompactionRetry is not negative, and the shared compaction promise
\* exists exactly when a compaction is in flight or a retry is pending.
C30_PromiseIffOutstanding ==
  /\ pendingCompactionRetry >= 0
  /\ compactionRetryPromise <=> Outstanding

\* A retry is pending after its agent_end took one of two away, the promise
\* is there and a consumer holds it.
C30_Witness ==
  /\ pendingCompactionRetry = 1
  /\ ~compactionInFlight
  /\ compactionRetryPromise
  /\ env.lastEvent = "agent_end"
  /\ \E w \in Waiters : waiters[w] = "awaiting"

(***************************************************************************)
(* Consumers that wait do go on                                            *)
(***************************************************************************)

\* The microtask a call has queued runs: the runtime empties the microtask
\* queue before it takes up anything else.
SpecCompactionLive ==
  InitCompaction /\ [][NextCompaction]_vars /\ WF_vars(WaiterMicrotask)

\* The agent events seen so far.
AgentEvents == env.nAgent + env.nCompaction + env.nCompactionEnd + env.nAgentEnd

MaxAgentEvents == 2 * (MaxAgentRuns + MaxCompactions)

\* C29: waiting is live.  A call of waitForCompactionRetry made while nothing
\* is in flight and no retry is pending resolves without a further agent
\* event; a call made while a compaction is in flight or a retry is pending
\* resolves as soon as an event makes pendingCompactionRetry 0 and
\* compactionInFlight false: in such a state no consumer is still waiting for
\* the shared promise.
C29_WaitingIsLive ==
  /\ [](~Outstanding => \A w \in Waiters : waiters[w] # "awaiting")
  /\ \A w \in Waiters : \A k \in 0..MaxAgentEvents :
        (waiters[w] = "queued" /\ ~Outstanding /\ AgentEvents = k)
          ~> (waiters[w] = "passed" \/ AgentEvents > k)

\* One consumer called with nothing outstanding and went on by its microtask,
\* another called during a compaction and was released by the event that
\* settled it.
C29_Witness ==
  /\ ~Outstanding
  /\ \E w, v \in Waiters : waiters[w] = "passed" /\ waiters[v] = "released"
  /\ env.releasedBy # "none"

(***************************************************************************)
(* C31: chunking loses no content                                          *)
(***************************************************************************)

\* Whether text is the blocks in their order, with nothing but white space
\* before, between and after them.
RECURSIVE Reassembles(_, _)
Reassembles(blocks, text) ==
  IF blocks = <<>> THEN Trim(text) = <<>>
  ELSE \E k \in 0..Len(text) :
         /\ Trim(Slice(text, 0, k)) = <<>>
         /\ StartsWith(SliceFrom(text, k), Head(blocks))
         /\ Reassembles(Tail(blocks), SliceFrom(text, k + Len(Head(blocks))))

\* The message had one text block, streamed through the chunker, and the event
\* that forces the flush of the block buffer has been handled.
ChunkedBlockFlushed ==
  /\ blockChunking.set /\ params.onBlockReply
  /\ Len(env.closedBlocks) + (IF env.openBlock = <<>> THEN 0 ELSE 1) = 1
  /\ \/ env.lastEvent = "text_end" /\ params.blockReplyBreak = "text_end"
     \/ env.lastEvent = "message_end" /\ params.blockReplyBreak = "message_end"

\* C31: with chunking enabled, the blocks delivered for a text block up to and
\* including its forced flush, concatenated in their order, are the streamed
\* text with only white space removed at the break points, provided no chunk was
\* identical to the chunk emitted just before it.
C31_ChunkingLosesNoContent ==
  (ChunkedBlockFlushed /\ ~suppressed) => Reassembles(BlocksOfMessage, StreamedText)

(***************************************************************************)
(* C32: drainBlockBuffer terminates                                        *)
(***************************************************************************)

\* The longest block buffer drained.
MaxBufferLen == 4

DrainChars == {"a", ".", " ", "\n"}

DrainBuffers == UNION {[1..n -> DrainChars] : n \in 0..MaxBufferLen}

\* Every setting of minChars and maxChars around the lengths of the buffers,
\* those below 1 and those with maxChars below minChars included.
DrainChunkings ==
  {NoChunking}
  \cup {Chunking(minChars, maxChars, preference) :
          minChars \in (0 - 1)..(MaxBufferLen - 1), maxChars \in 0..MaxBufferLen,
          preference \in {"paragraph", "newline", "sentence"}}

InitDrain ==
  /\ InitSubscriberWith(
       ParamSet({FALSE}, {"text_end"}, DrainChunkings), DrainBuffers,
       {[IdleAgent({}, 0, {}) EXCEPT
           !.phase = "message",
           !.drain = [at |-> "called", force |-> force, iterations |-> 0]] :
          force \in BOOLEAN})
  /\ InitRuns(DefaultConfigs)
  /\ InitHost

NextDrain == DrainEnter \/ DrainIterate

\* One call of drainBlockBuffer, for every buffer and every configuration.
SpecDrain == InitDrain /\ [][NextDrain]_vars

\* C32: drainBlockBuffer terminates for every buffer content and chunking
\* configuration, forced or not: each iteration of its loop either returns or
\* leaves the block buffer strictly shorter.
C32_DrainIterationShortens ==
  [][env.drain.at = "loop"
       => \/ env'.drain.at = "returned"
          \/ Len(blockBuffer') < Len(blockBuffer)]_vars

\* The loop returned in its third iteration or a later one, having shortened the
\* buffer before.
C32_Witness ==
  /\ env.drain.at = "returned"
  /\ env.drain.iterations = 2
  /\ Len(blockReplies) >= 2

(***************************************************************************)
(* C33: message_end clears the buffers and the dedupe markers              *)
(***************************************************************************)

\* Two short texts, so that a message can repeat the one before it.
RepeatDeltas == {<<"a", "b">>, <<"c", ".", " ">>}

InitRepeat ==
  InitWith(ParamSet({FALSE}, Breaks, {NoChunking, Chunking(2, 4, "paragraph")}),
           RepeatDeltas, Unbounded)

\* Messages that may repeat, with chunking and without it.
SpecRepeat == InitRepeat /\ [][NextText]_vars

\* The text of the current message that the delta buffer is to hold: the open
\* text block when text_end closes blocks, all of the message otherwise.
OwnText ==
  IF params.blockReplyBreak = "text_end" THEN env.openBlock ELSE StreamedText

IsSuffix(suffix, text) ==
  Len(suffix) <= Len(text) /\ SliceFrom(text, Len(text) - Len(suffix)) = suffix

\* C33: after every assistant message_end the delta buffer and the block buffer
\* are empty and both dedupe markers are cleared, so the text of a message
\* neither appears in nor suppresses the partial or block output of the next
\* message, even when the two have the same text: the buffers of a message hold
\* its own text only, its current text always has its partial reply, every block
\* delivered for it is part of its own text, and its first closed text block is
\* delivered.
C33_MessageEndClearsState ==
  /\ env.lastEvent = "message_end" =>
       /\ deltaBuffer = <<>> /\ blockBuffer = <<>>
       /\ lastStreamedAssistant = Undefined /\ lastBlockReplyText = Undefined
  /\ env.phase = "message" =>
       /\ deltaBuffer = OwnText
       /\ IsSuffix(blockBuffer, deltaBuffer)
       /\ NextOf(deltaBuffer) # <<>> =>
            /\ PartialsOfMessage # <<>>
            /\ PartialsOfMessage[Len(PartialsOfMessage)] =
                 splitMediaFromOutput(NextOf(deltaBuffer)).text
       /\ \A i \in 1..Len(BlocksOfMessage) : Includes(StreamedText, BlocksOfMessage[i])
       /\ ( /\ env.lastEvent = "text_end" /\ params.blockReplyBreak = "text_end"
            /\ Len(env.closedBlocks) = 1 /\ Visible(env.closedBlocks[1]) )
          => BlocksOfMessage # <<>>

\* A message whose first partial reply and first block are those the message
\* before it ended with.
C33_Witness ==
  /\ env.phase = "message"
  /\ env.partialBase >= 1 /\ PartialsOfMessage # <<>>
  /\ partialReplies[env.partialBase].text = PartialsOfMessage[1]
  /\ env.blockBase >= 1 /\ BlocksOfMessage # <<>>
  /\ blockReplies[env.blockBase].text = BlocksOfMessage[1]

(***************************************************************************)
(* C34: what a message adds to assistantTexts                              *)
(***************************************************************************)

InitRecord ==
  InitWith(ParamSet({FALSE}, Breaks, {NoChunking, Chunking(2, 4, "paragraph")}),
           RepeatDeltas, Unbounded)

NextRecord == MessageUpdate \/ MessageEnd \/ MessageEndUnstreamed

\* Messages that are streamed and messages that arrive whole.
SpecRecord == InitRecord /\ [][NextRecord]_vars

\* The final text of the message that has ended.
FinalTextAtEnd == FinalTextOf(extractAssistantText(Append(env.closedBlocks, env.openBlock)))

\* What the message added to assistantTexts, and what its message_end added.
TextsOfMessage == SubSeq(assistantTexts, env.textBase + 1, Len(assistantTexts))

TextsAtEnd == SubSeq(assistantTexts, env.atEnd.texts + 1, Len(assistantTexts))

\* C34: every assistant message with non-empty final text adds at least one
\* entry to assistantTexts; message_end adds the full final text only when no
\* block of the message was recorded before, and the text is not recorded twice.
C34_EveryMessageRecordedOnce ==
  (env.lastEvent = "message_end" /\ FinalTextAtEnd # <<>>) =>
    /\ Len(TextsOfMessage) >= 1
    /\ env.atEnd.texts > env.textBase =>
         \A i \in 1..Len(TextsAtEnd) : TextsAtEnd[i] # FinalTextAtEnd
    /\ ~(Len(TextsAtEnd) >= 2 /\ TextsAtEnd[1] = FinalTextAtEnd)

(***************************************************************************)
(* C35: toolMetas                                                          *)
(***************************************************************************)

\* Tool events in one behaviour of SpecCalls: two calls, started and ended.
MaxCallEvents == 4

InitCalls ==
  /\ InitSubscriberWith(
       Options({FALSE}, {"text_end"}, {NoChunking}, {"off", "on"}, BOOLEAN, BOOLEAN),
       {<<>>},
       {[IdleAgent(PlainDeltas, MaxCallEvents + 1, PlainResults)
           EXCEPT !.maxTool = MaxCallEvents]})
  /\ InitRuns(DefaultConfigs)
  /\ InitHost

NextCalls ==
  \/ ToolExecutionStart
  \/ ToolExecutionUpdate
  \/ ToolExecutionEnd
  \/ AutoCompactionStart
  \/ AutoCompactionEnd

\* Tool calls that interleave, under every setting of verboseLevel,
\* shouldEmitToolResult and onToolResult, and compactions between them.
SpecCalls == InitCalls /\ [][NextCalls]_vars

\* C35: toolMetas holds one entry per tool_execution_end received since the last
\* compaction reset, in the order of arrival, and the meta of each entry is the
\* one inferred at the tool_execution_start with the same toolCallId since that
\* reset (undefined when there was none), also when the calls interleave.
C35_ToolMetasFollowEnds ==
  /\ Len(toolMetas) = Len(env.ends)
  /\ \A i \in 1..Len(toolMetas) :
       /\ toolMetas[i].toolName = env.ends[i].toolName
       /\ toolMetas[i].meta = env.ends[i].meta

\* Two calls of different tools were open at once, with different metas, and
\* both have ended.
C35_Witness ==
  /\ env.nTool = 4
  /\ Cardinality(DOMAIN toolMetaById) = 2
  /\ \E a, b \in DOMAIN toolMetaById : toolMetaById[a] # toolMetaById[b]
  /\ Len(toolMetas) = 2
  /\ toolMetas[1].toolName # toolMetas[2].toolName
  /\ toolMetas[1].meta # toolMetas[2].meta

(***************************************************************************)
(* C36: when onToolResult is called                                        *)
(***************************************************************************)

\* C36: onToolResult is called for a tool_execution_end only if
\* shouldEmitToolResult() returns true at that moment or, when no
\* shouldEmitToolResult is supplied, only if verboseLevel is 'on'; a supplied
\* shouldEmitToolResult overrides verboseLevel in both directions.
C36_ToolResultOnlyWhenAllowed ==
  [][Len(toolReplies') > Len(toolReplies) =>
       /\ env'.lastEvent = "tool_execution_end"
       /\ Len(toolReplies') = Len(toolReplies) + 1
       /\ IF params.shouldEmitToolResult
            THEN env'.emitAnswer
            ELSE params.verboseLevel = "on"]_vars

\* Under verboseLevel 'off' a supplied shouldEmitToolResult returned true and
\* onToolResult was called, and again for the next tool_execution_end.
C36_Witness ==
  /\ params.verboseLevel = "off"
  /\ params.shouldEmitToolResult
  /\ env.lastEvent = "tool_execution_end"
  /\ env.emitAnswer
  /\ Len(toolReplies) = 2
  /\ Len(toolMetas) = 2

(***************************************************************************)
(* C37: events that are not assistant text events                          *)
(***************************************************************************)

InitFrame == InitWith(ParamSet({FALSE}, Breaks, {NoChunking}), PlainDeltas, MaxEvents)

NextFrame ==
  \/ MessageUpdate
  \/ MessageEnd
  \/ MessageUpdateOther
  \/ MessageEndOther
  \/ AgentStart
  \/ ToolExecutionStart
  \/ ToolExecutionUpdate
  \/ ToolExecutionEnd
  \/ DebounceTimer

\* Assistant text and, between its events, the events that carry none.
SpecFrame == InitFrame /\ [][NextFrame]_vars

OtherEvents ==
  {"message_update_other", "message_end_other", "agent_start",
   "tool_execution_start", "tool_execution_update", "tool_execution_end"}

\* The step handles an event that is not an assistant text event.
OtherEventStep == env' # env /\ env'.lastEvent \in OtherEvents

TextStateKept ==
  /\ UNCHANGED <<deltaBuffer, blockBuffer, assistantTexts>>
  /\ UNCHANGED <<partialReplies, blockReplies>>

====
